---- MODULE Spec2Model ----
(***************************************************************************)
(* A model of the facial-tension scoring engine: the five region analyzers *)
(* (brow, eye, grimace, jaw, nasolabial) with their baseline and bounded   *)
(* smoothing history, the geometry primitives they call, and the          *)
(* aggregator of FacialAgent._analyze_pain.                                *)
(*                                                                         *)
(* Numbers.  The program computes in numpy float64.  The model computes    *)
(* in exact rationals extended with the IEEE specials the program can     *)
(* produce (nan, +inf, -inf), with Python's int 0 (which divides           *)
(* differently from a float 0.0) and with Python's None.  A value is a     *)
(* record [k, n, d]:                                                       *)
(*    k = "f"     a finite float64, the rational n/d in lowest terms       *)
(*    k = "i"     a Python int n (d = 1)                                   *)
(*    k = "nan", "pinf", "ninf"   the float specials                       *)
(*    k = "none"  Python's None                                            *)
(*    k = an exception name       the evaluation raised that exception     *)
(* Rounding of float64 is not modelled: sqrt and arccos are exact on the   *)
(* inputs the frames of the model produce.                                 *)
(*                                                                         *)
(* Specifications.                                                         *)
(*    Spec         one analyzer under any sequence of set_baseline,        *)
(*                 analyze and reset_history calls on frames of valid      *)
(*                 shape                                                   *)
(*    SessionSpec  one analyzer as a video session drives it, long enough  *)
(*                 for the history to fill and evict                       *)
(*    FnSpec       get_description, the aggregator, the three pain score   *)
(*                 formulas, the severity bands, calculate_angle and       *)
(*                 _calculate_fold_depth applied to inputs of a grid       *)
(*    AgentSpec    a FacialAgent with its five analyzers under             *)
(*                 process_frame, get_average_scores and reset             *)
(*    ShapeSpec    one analyzer called with arrays of 468 rows, fewer      *)
(*                 and more                                                *)
(*    PairSpec     two instances of one analyzer class, their lists as     *)
(*                 objects in a heap, next to an instance run alone        *)
(*    ThreadSpec   two threads calling analyze and set_baseline on one     *)
(*                 analyzer, one statement per step, with the calls        *)
(*                 serialized or interleaved                               *)
(*    DetectorSpec a RealtimePainDetector under calibrate_baseline,        *)
(*                 analyze_pain and reset_baseline                         *)
(***************************************************************************)
EXTENDS Integers, Sequences, FiniteSets, TLC

----------------------------------------------------------------------------
(* Rational arithmetic with the float64 specials                           *)

RECURSIVE GCD(_, _)
GCD(a, b) == IF b = 0 THEN a ELSE GCD(b, a % b)

IAbs(x) == IF x < 0 THEN -x ELSE x

\* the finite float n/d, in lowest terms with a positive denominator
R(n, d) ==
    LET g == GCD(IAbs(n), IAbs(d))
        s == IF d < 0 THEN -1 ELSE 1
    IN  [k |-> "f", n |-> s * (n \div g), d |-> s * (d \div g)]

PyInt(n) == [k |-> "i", n |-> n, d |-> 1]
NaN == [k |-> "nan", n |-> 0, d |-> 1]
PInf == [k |-> "pinf", n |-> 0, d |-> 1]
NInf == [k |-> "ninf", n |-> 0, d |-> 1]
None == [k |-> "none", n |-> 0, d |-> 1]
Raised(e) == [k |-> e, n |-> 0, d |-> 1]

Errors == {"ZeroDivisionError", "TypeError", "IndexError"}

IsErr(v) == v.k \in Errors
IsFin(v) == v.k \in {"f", "i"}
IsNum(v) == v.k \in {"f", "i", "nan", "pinf", "ninf"}

\* the first exception raised by evaluating the operands, left to right;
\* arithmetic on None raises TypeError
Fault(a, b) ==
    IF IsErr(a) THEN a
    ELSE IF IsErr(b) THEN b
    ELSE Raised("TypeError")

Sign(v) ==
    CASE v.k = "pinf" -> 1
      [] v.k = "ninf" -> -1
      [] OTHER -> IF v.n > 0 THEN 1 ELSE IF v.n < 0 THEN -1 ELSE 0

Signed(s) == IF s > 0 THEN PInf ELSE IF s < 0 THEN NInf ELSE NaN

VNeg(a) ==
    CASE a.k = "f" -> R(-a.n, a.d)
      [] a.k = "i" -> PyInt(-a.n)
      [] a.k = "pinf" -> NInf
      [] a.k = "ninf" -> PInf
      [] OTHER -> a

VAdd(a, b) ==
    IF ~(IsNum(a) /\ IsNum(b)) THEN Fault(a, b)
    ELSE IF a.k = "nan" \/ b.k = "nan" THEN NaN
    ELSE IF IsFin(a) /\ IsFin(b)
         THEN IF a.k = "i" /\ b.k = "i" THEN PyInt(a.n + b.n)
              ELSE R(a.n * b.d + b.n * a.d, a.d * b.d)
    ELSE IF IsFin(a) THEN b
    ELSE IF IsFin(b) THEN a
    ELSE IF a.k = b.k THEN a ELSE NaN

VSub(a, b) == IF IsNum(b) THEN VAdd(a, VNeg(b)) ELSE Fault(a, b)

VMul(a, b) ==
    IF ~(IsNum(a) /\ IsNum(b)) THEN Fault(a, b)
    ELSE IF a.k = "nan" \/ b.k = "nan" THEN NaN
    ELSE IF IsFin(a) /\ IsFin(b)
         THEN IF a.k = "i" /\ b.k = "i" THEN PyInt(a.n * b.n)
              ELSE R(a.n * b.n, a.d * b.d)
    ELSE Signed(Sign(a) * Sign(b))

\* a / b.  A Python int divided by the Python int 0 raises
\* ZeroDivisionError; as soon as one operand is a numpy float64 the
\* division by zero yields inf or nan (numpy warns and goes on).
VDiv(a, b) ==
    IF ~(IsNum(a) /\ IsNum(b)) THEN Fault(a, b)
    ELSE IF a.k = "i" /\ b.k = "i" /\ b.n = 0 THEN Raised("ZeroDivisionError")
    ELSE IF a.k = "nan" \/ b.k = "nan" THEN NaN
    ELSE IF IsFin(b)
         THEN IF b.n = 0 THEN Signed(Sign(a))
              ELSE IF IsFin(a) THEN R(a.n * b.d, a.d * b.n)
              ELSE Signed(Sign(a) * Sign(b))
    ELSE IF IsFin(a) THEN R(0, 1)
    ELSE NaN

VAbs(a) ==
    CASE a.k = "f" -> R(IAbs(a.n), a.d)
      [] a.k = "i" -> PyInt(IAbs(a.n))
      [] a.k = "ninf" -> PInf
      [] a.k = "none" -> Raised("TypeError")
      [] OTHER -> a

\* a < b as Python evaluates it on two numbers: every comparison with nan
\* is False
VLt(a, b) ==
    IF a.k = "nan" \/ b.k = "nan" THEN FALSE
    ELSE IF IsFin(a) /\ IsFin(b) THEN a.n * b.d < b.n * a.d
    ELSE IF a.k = b.k THEN FALSE
    ELSE a.k = "ninf" \/ b.k = "pinf"

VLe(a, b) ==
    IF a.k = "nan" \/ b.k = "nan" THEN FALSE
    ELSE ~VLt(b, a)

\* Python's min(a, b) and max(a, b): the first argument unless the second
\* compares strictly smaller (larger)
PyMin(a, b) ==
    IF ~(IsNum(a) /\ IsNum(b)) THEN Fault(a, b)
    ELSE IF VLt(b, a) THEN b ELSE a

PyMax(a, b) ==
    IF ~(IsNum(a) /\ IsNum(b)) THEN Fault(a, b)
    ELSE IF VLt(a, b) THEN b ELSE a

\* np.clip(x, lo, hi) for finite lo <= hi: nan stays nan, the result is a
\* float64
np_clip(x, lo, hi) ==
    IF ~IsNum(x) THEN Fault(x, x)
    ELSE IF x.k = "nan" THEN NaN
    ELSE IF VLt(x, lo) THEN lo
    ELSE IF VLt(hi, x) THEN hi
    ELSE R(x.n, x.d)

\* the largest r in lo..hi with r * r <= m
RECURSIVE FloorSqrt(_, _, _)
FloorSqrt(lo, hi, m) ==
    IF lo >= hi THEN lo
    ELSE LET mid == (lo + hi + 1) \div 2
         IN  IF mid * mid <= m THEN FloorSqrt(mid, hi, m)
             ELSE FloorSqrt(lo, mid - 1, m)

\* the integer square root of a perfect square (undefined on other numbers)
ISqrt(m) ==
    LET s == FloorSqrt(0, IF m < 46340 THEN m ELSE 46340, m)
    IN  CHOOSE r \in {s} : r * r = m

\* sqrt of a non-negative rational that is the square of a rational
VSqrt(a) == IF IsFin(a) THEN R(ISqrt(a.n), ISqrt(a.d)) ELSE a

----------------------------------------------------------------------------
(* Geometry primitives (utils.py) on points <<x, y, z>>                     *)

Zero == R(0, 1)
One == R(1, 1)

PSub(p, q) == <<VSub(p[1], q[1]), VSub(p[2], q[2]), VSub(p[3], q[3])>>
PAdd(p, q) == <<VAdd(p[1], q[1]), VAdd(p[2], q[2]), VAdd(p[3], q[3])>>
PScale(c, p) == <<VMul(c, p[1]), VMul(c, p[2]), VMul(c, p[3])>>
PDivide(p, c) == <<VDiv(p[1], c), VDiv(p[2], c), VDiv(p[3], c)>>

\* np.dot
np_dot(p, q) ==
    VAdd(VAdd(VMul(p[1], q[1]), VMul(p[2], q[2])), VMul(p[3], q[3]))

\* np.linalg.norm
np_linalg_norm(p) == VSqrt(np_dot(p, p))

\* np.mean(points, axis=0) of two points
np_mean2(p, q) == PDivide(PAdd(p, q), R(2, 1))

calculate_distance(point1, point2) == np_linalg_norm(PSub(point1, point2))

\* np.degrees(np.arccos(c)), tabulated (to 1/100 of a degree) at the cosines
\* the frames of the model produce; arccos(nan) is nan
arccos_degrees(c) ==
    CASE c.k = "nan" -> NaN
      [] IsErr(c) -> c
      [] c = R(1, 1) -> R(0, 1)
      [] c = R(4, 5) -> R(3687, 100)
      [] c = R(3, 5) -> R(5313, 100)
      [] c = R(7, 25) -> R(7374, 100)
      [] c = R(0, 1) -> R(90, 1)
      [] c = R(-7, 25) -> R(10626, 100)
      [] c = R(-1, 1) -> R(180, 1)

\* the angle at point2, in degrees.  A zero-length ray makes the quotient
\* 0.0 / 0.0 = nan, which np.clip and np.arccos pass on.
calculate_angle(point1, point2, point3) ==
    LET vector1 == PSub(point1, point2)
        vector2 == PSub(point3, point2)
        cos_angle == VDiv(np_dot(vector1, vector2),
                          VMul(np_linalg_norm(vector1), np_linalg_norm(vector2)))
    IN  arccos_degrees(np_clip(cos_angle, R(-1, 1), R(1, 1)))

----------------------------------------------------------------------------
(* Landmark arrays.  A frame is an array of N points; the model places the *)
(* landmarks the analyzers read on a grid of 1/100 of the image, all other *)
(* landmarks at the origin.                                                *)

N == 468

FrameIds == {"neutral", "tense", "degenerate"}

\* the neutral face: landmark index :> <<x, y>> in grid units
NeutralGrid ==
    \* eyebrows and nose bridge
    (70 :> <<20, 30>>) @@ (107 :> <<28, 30>>) @@ (336 :> <<52, 30>>) @@
    (300 :> <<60, 30>>) @@ (168 :> <<40, 30>>) @@
    \* eyes: upper, lower, inner, outer
    (159 :> <<24, 36>>) @@ (145 :> <<24, 40>>) @@ (133 :> <<30, 38>>) @@
    (33 :> <<18, 38>>) @@ (386 :> <<56, 36>>) @@ (374 :> <<56, 40>>) @@
    (362 :> <<50, 38>>) @@ (263 :> <<62, 38>>) @@
    \* mouth: corners, centre top and bottom, lips
    (61 :> <<30, 60>>) @@ (291 :> <<50, 60>>) @@ (0 :> <<40, 58>>) @@
    (17 :> <<40, 62>>) @@ (13 :> <<40, 59>>) @@ (78 :> <<31, 59>>) @@
    \* jaw line, chin and jaw angles
    (234 :> <<10, 50>>) @@ (93 :> <<10, 56>>) @@ (454 :> <<70, 50>>) @@
    (323 :> <<70, 56>>) @@ (152 :> <<40, 89>>) @@ (172 :> <<20, 74>>) @@
    (397 :> <<60, 74>>) @@
    \* nasolabial folds, nose bottom and cheeks
    (48 :> <<27, 56>>) @@ (98 :> <<30, 52>>) @@ (205 :> <<20, 56>>) @@
    (278 :> <<53, 56>>) @@ (327 :> <<50, 52>>) @@ (425 :> <<60, 56>>)

\* a tense face: left eyebrow points 50% closer, left eye narrowed, mouth
\* less open, left jaw line stretched, left nasolabial fold twice as deep
TenseGrid ==
    (70 :> <<22, 30>>) @@ (107 :> <<26, 30>>) @@ (159 :> <<24, 37>>) @@
    (17 :> <<40, 61>>) @@ (93 :> <<10, 59>>) @@ (98 :> <<30, 44>>) @@
    (48 :> <<24, 52>>) @@ NeutralGrid

\* a frame of valid shape with degenerate geometry: one pair of landmarks
\* of every region coincides
DegenerateGrid ==
    (107 :> <<20, 30>>) @@ (145 :> <<24, 36>>) @@ (17 :> <<40, 58>>) @@
    (93 :> <<10, 50>>) @@ (98 :> <<30, 60>>) @@ NeutralGrid

Grid(f) ==
    CASE f = "neutral" -> NeutralGrid
      [] f = "tense" -> TenseGrid
      [] f = "degenerate" -> DegenerateGrid

\* the landmark array of frame f: np.ndarray of shape (N, 3)
Landmarks(f) ==
    LET g == Grid(f)
    IN  [len |-> N,
         at  |-> [i \in 0..(N - 1) |->
                    IF i \in DOMAIN g
                    THEN <<R(g[i][1], 100), R(g[i][2], 100), Zero>>
                    ELSE <<Zero, Zero, Zero>>]]

\* landmarks[i]: IndexError when i is out of range
At(landmarks, i) ==
    IF i < landmarks.len THEN landmarks.at[i]
    ELSE <<Raised("IndexError"), Raised("IndexError"), Raised("IndexError")>>

\* every index of idxs is within an array of length len
InRange(len, idxs) == \A i \in idxs : i < len

----------------------------------------------------------------------------
(* What the five analyzers share: the statements of set_baseline run in    *)
(* order and an exception leaves the assignments made before it; analyze   *)
(* measures, scores, clips, pushes and smooths.                            *)

Regions == {"brow", "eye", "grimace", "jaw", "nasolabial"}

\* self.history_size
history_size == 5

\* one assignment self.<fld> = v of set_baseline: skipped once an earlier
\* statement raised; raises IndexError when a landmark it (or a statement
\* since the previous assignment) loads is out of range
Assign(st, loaded, fld, v) ==
    IF st.raised # "none" THEN st
    ELSE IF ~loaded THEN [st EXCEPT !.raised = "IndexError"]
    ELSE IF IsErr(v) THEN [st EXCEPT !.raised = v.k]
    ELSE [st EXCEPT !.b[fld] = v]

Begin(b) == [b |-> b, raised |-> "none"]

\* the relative change without abs()
RelChange_signed(current, base) == VDiv(VSub(current, base), base)

\* abs(current - baseline) / baseline
RelChange(current, base) == VDiv(VAbs(VSub(current, base)), base)

----------------------------------------------------------------------------
(* BrowAnalyzer                                                            *)

eyebrow_left == <<70, 107>>
eyebrow_right == <<336, 300>>

BrowInit ==
    [baseline_distance_left |-> None, baseline_distance_right |-> None,
     baseline_angle |-> None]

\* the measurements set_baseline and analyze both take
BrowMeasure(landmarks) ==
    LET l0 == At(landmarks, eyebrow_left[1])
        l1 == At(landmarks, eyebrow_left[2])
        r0 == At(landmarks, eyebrow_right[1])
        r1 == At(landmarks, eyebrow_right[2])
        center_left == np_mean2(l0, l1)
        center_right == np_mean2(r0, r1)
        nose_bridge == At(landmarks, 168)
    IN  [distance_left |-> calculate_distance(l0, l1),
         distance_right |-> calculate_distance(r0, r1),
         angle |-> calculate_angle(center_left, nose_bridge, center_right)]

Brow_set_baseline(b, m, len) ==
    LET s1 == Assign(Begin(b), InRange(len, {70, 107, 336, 300}),
                     "baseline_distance_left", m.distance_left)
        s2 == Assign(s1, TRUE, "baseline_distance_right", m.distance_right)
    IN  Assign(s2, InRange(len, {168}), "baseline_angle", m.angle)

BrowLoads == {70, 107, 336, 300, 168}

BrowHasBaseline(b) == b.baseline_distance_left # None

\* the condition without its `is not None` test
BrowUsesBaseline_unchecked(b, use_baseline) == use_baseline

BrowUsesBaseline(b, use_baseline) ==
    use_baseline /\ b.baseline_distance_left # None

\* tension_score before the sensitivity multiplier
BrowFraction(b, m, use_baseline) ==
    IF BrowUsesBaseline(b, use_baseline)
    THEN LET left_change == RelChange(m.distance_left, b.baseline_distance_left)
             right_change == RelChange(m.distance_right, b.baseline_distance_right)
             angle_change == RelChange(m.angle, b.baseline_angle)
         IN  VDiv(VAdd(VAdd(left_change, right_change), angle_change), R(3, 1))
    ELSE LET angle_factor == VSub(One, VDiv(m.angle, R(180, 1)))
             avg_distance == VDiv(VAdd(m.distance_left, m.distance_right), R(2, 1))
             distance_factor == VSub(One, PyMin(VMul(avg_distance, R(10, 1)), One))
         IN  VAdd(VMul(angle_factor, R(6, 10)), VMul(distance_factor, R(4, 10)))

\* the sensitivity before it was raised from 2.0 to 3.5
BrowMultiplier_old == R(20, 10)

BrowMultiplier == R(35, 10)

----------------------------------------------------------------------------
(* EyeAnalyzer                                                             *)

left_upper == 159
left_lower == 145
right_upper == 386
right_lower == 374
left_inner == 133
left_outer == 33
right_inner == 362
right_outer == 263

EyeInit ==
    [baseline_left_aperture |-> None, baseline_right_aperture |-> None,
     baseline_left_width |-> None, baseline_right_width |-> None]

EyeMeasure(landmarks) ==
    [left_aperture |-> calculate_distance(At(landmarks, left_upper),
                                          At(landmarks, left_lower)),
     right_aperture |-> calculate_distance(At(landmarks, right_upper),
                                           At(landmarks, right_lower)),
     left_width |-> calculate_distance(At(landmarks, left_inner),
                                       At(landmarks, left_outer)),
     right_width |-> calculate_distance(At(landmarks, right_inner),
                                        At(landmarks, right_outer))]

Eye_set_baseline(b, m, len) ==
    LET s1 == Assign(Begin(b),
                     InRange(len, {left_upper, left_lower,
                                         right_upper, right_lower}),
                     "baseline_left_aperture", m.left_aperture)
        s2 == Assign(s1, TRUE, "baseline_right_aperture", m.right_aperture)
        s3 == Assign(s2,
                     InRange(len, {left_inner, left_outer,
                                         right_inner, right_outer}),
                     "baseline_left_width", m.left_width)
    IN  Assign(s3, TRUE, "baseline_right_width", m.right_width)

EyeLoads ==
    {left_upper, left_lower, right_upper, right_lower,
     left_inner, left_outer, right_inner, right_outer}

EyeHasBaseline(b) == b.baseline_left_aperture # None

EyeUsesBaseline(b, use_baseline) ==
    use_baseline /\ b.baseline_left_aperture # None

\* aperture / width if width > 0 else 0
AspectRatio(aperture, width) ==
    IF VLt(Zero, width) THEN VDiv(aperture, width) ELSE PyInt(0)

EyeFraction(b, m, use_baseline) ==
    IF EyeUsesBaseline(b, use_baseline)
    THEN LET left_reduction ==
                 VSub(One, VDiv(m.left_aperture, b.baseline_left_aperture))
             right_reduction ==
                 VSub(One, VDiv(m.right_aperture, b.baseline_right_aperture))
             left_width_change == RelChange(m.left_width, b.baseline_left_width)
             right_width_change == RelChange(m.right_width, b.baseline_right_width)
         IN  VDiv(VAdd(VMul(VAdd(left_reduction, right_reduction), R(7, 10)),
                       VMul(VAdd(left_width_change, right_width_change), R(3, 10))),
                  R(2, 1))
    ELSE LET avg_aspect_ratio ==
                 VDiv(VAdd(AspectRatio(m.left_aperture, m.left_width),
                           AspectRatio(m.right_aperture, m.right_width)), R(2, 1))
             normal_ratio == R(30, 100)
         IN  VDiv(PyMax(PyInt(0), VSub(normal_ratio, avg_aspect_ratio)),
                  normal_ratio)

EyeMultiplier == R(35, 10)

----------------------------------------------------------------------------
(* GrimaceAnalyzer                                                         *)

mouth_corners == <<61, 291>>
mouth_center == <<0, 17>>
upper_lip == <<13, 14>>
lower_lip == <<78, 308>>

GrimaceInit ==
    [baseline_corner_distance |-> None, baseline_vertical_distance |-> None,
     baseline_lip_distance |-> None]

GrimaceMeasure(landmarks) ==
    LET left_corner == At(landmarks, mouth_corners[1])
        right_corner == At(landmarks, mouth_corners[2])
        top_center == At(landmarks, mouth_center[1])
        bottom_center == At(landmarks, mouth_center[2])
        corner_midpoint_y == VDiv(VAdd(left_corner[2], right_corner[2]), R(2, 1))
        center_y == VDiv(VAdd(top_center[2], bottom_center[2]), R(2, 1))
    IN  [corner_distance |-> calculate_distance(left_corner, right_corner),
         vertical_distance |-> calculate_distance(top_center, bottom_center),
         corner_depression |-> PyMax(PyInt(0), VSub(corner_midpoint_y, center_y)),
         lip_distance |-> calculate_distance(At(landmarks, upper_lip[1]),
                                             At(landmarks, lower_lip[1]))]

Grimace_set_baseline(b, m, len) ==
    LET s1 == Assign(Begin(b), InRange(len, {61, 291, 0, 17}),
                     "baseline_corner_distance", m.corner_distance)
        s2 == Assign(s1, TRUE, "baseline_vertical_distance", m.vertical_distance)
    IN  Assign(s2, InRange(len, {13, 78}),
               "baseline_lip_distance", m.lip_distance)

GrimaceLoads == {61, 291, 0, 17, 13, 78}

GrimaceHasBaseline(b) == b.baseline_corner_distance # None

GrimaceUsesBaseline(b, use_baseline) ==
    use_baseline /\ b.baseline_corner_distance # None

GrimaceFraction(b, m, use_baseline) ==
    IF GrimaceUsesBaseline(b, use_baseline)
    THEN LET corner_change ==
                 RelChange(m.corner_distance, b.baseline_corner_distance)
             vertical_change ==
                 RelChange(m.vertical_distance, b.baseline_vertical_distance)
             lip_change == RelChange(m.lip_distance, b.baseline_lip_distance)
         IN  VAdd(VAdd(VMul(corner_change, R(4, 10)),
                       VMul(vertical_change, R(3, 10))),
                  VMul(lip_change, R(3, 10)))
    ELSE LET corner_factor ==
                 VSub(One, PyMin(VMul(m.corner_distance, R(5, 1)), One))
             vertical_factor ==
                 VSub(One, PyMin(VMul(m.vertical_distance, R(20, 1)), One))
             depression_factor == PyMin(VMul(m.corner_depression, R(50, 1)), One)
         IN  VAdd(VAdd(VMul(corner_factor, R(35, 100)),
                       VMul(vertical_factor, R(35, 100))),
                  VMul(depression_factor, R(30, 100)))

GrimaceMultiplier == R(30, 10)

----------------------------------------------------------------------------
(* JawAnalyzer                                                             *)

jaw_left == <<234, 93>>
jaw_right == <<454, 323>>
jaw_bottom == 152
jaw_left_angle == 172
jaw_right_angle == 397

JawInit ==
    [baseline_left_distance |-> None, baseline_right_distance |-> None,
     baseline_jaw_width |-> None, baseline_jaw_angle |-> None]

JawMeasure(landmarks) ==
    LET l0 == At(landmarks, jaw_left[1])
        l1 == At(landmarks, jaw_left[2])
        r0 == At(landmarks, jaw_right[1])
        r1 == At(landmarks, jaw_right[2])
        bottom == At(landmarks, jaw_bottom)
        left_angle == At(landmarks, jaw_left_angle)
        right_angle == At(landmarks, jaw_right_angle)
    IN  [left_distance |-> calculate_distance(l0, l1),
         right_distance |-> calculate_distance(r0, r1),
         jaw_width |-> calculate_distance(left_angle, right_angle),
         jaw_angle |-> calculate_angle(left_angle, bottom, right_angle),
         \* computed by analyze and never used
         left_tension_distance |->
             calculate_distance(left_angle, At(landmarks, 234)),
         right_tension_distance |->
             calculate_distance(right_angle, At(landmarks, 454))]

Jaw_set_baseline(b, m, len) ==
    LET s1 == Assign(Begin(b), InRange(len, {234, 93, 454, 323, jaw_bottom}),
                     "baseline_left_distance", m.left_distance)
        s2 == Assign(s1, TRUE, "baseline_right_distance", m.right_distance)
        s3 == Assign(s2, InRange(len, {jaw_left_angle, jaw_right_angle}),
                     "baseline_jaw_width", m.jaw_width)
    IN  Assign(s3, TRUE, "baseline_jaw_angle", m.jaw_angle)

JawLoads == {234, 93, 454, 323, jaw_bottom, jaw_left_angle, jaw_right_angle}

JawHasBaseline(b) == b.baseline_left_distance # None

JawUsesBaseline(b, use_baseline) ==
    use_baseline /\ b.baseline_left_distance # None

JawFraction(b, m, use_baseline) ==
    IF JawUsesBaseline(b, use_baseline)
    THEN LET left_change == RelChange(m.left_distance, b.baseline_left_distance)
             right_change == RelChange(m.right_distance, b.baseline_right_distance)
             width_change == RelChange(m.jaw_width, b.baseline_jaw_width)
             angle_change == RelChange(m.jaw_angle, b.baseline_jaw_angle)
         IN  VAdd(VAdd(VAdd(VMul(left_change, R(25, 100)),
                            VMul(right_change, R(25, 100))),
                       VMul(width_change, R(25, 100))),
                  VMul(angle_change, R(25, 100)))
    ELSE LET avg_distance == VDiv(VAdd(m.left_distance, m.right_distance), R(2, 1))
             distance_factor == VSub(One, PyMin(VMul(avg_distance, R(8, 1)), One))
             width_factor ==
                 PyMax(PyInt(0),
                       VSub(PyMin(VMul(m.jaw_width, R(3, 1)), One), R(5, 10)))
             angle_factor == VSub(One, VDiv(m.jaw_angle, R(180, 1)))
         IN  VAdd(VAdd(VMul(distance_factor, R(4, 10)),
                       VMul(width_factor, R(3, 10))),
                  VMul(angle_factor, R(3, 10)))

JawMultiplier == R(35, 10)

----------------------------------------------------------------------------
(* NasolabialAnalyzer                                                      *)

nasolabial_left == <<48>>
nasolabial_right == <<278>>
nose_bottom_left == 98
nose_bottom_right == 327
mouth_corner_left == 61
mouth_corner_right == 291
cheek_left == 205
cheek_right == 425

NasolabialInit ==
    [baseline_left_depth |-> None, baseline_right_depth |-> None,
     baseline_fold_angle_left |-> None, baseline_fold_angle_right |-> None]

\* _calculate_fold_depth without its test of line_len
calculate_fold_depth_unguarded(fold_point, nose_point, mouth_point) ==
    LET line_vec == PSub(mouth_point, nose_point)
        point_vec == PSub(fold_point, nose_point)
        line_unitvec == PDivide(line_vec, np_linalg_norm(line_vec))
        projection == np_dot(point_vec, line_unitvec)
        closest_point == PAdd(nose_point, PScale(projection, line_unitvec))
    IN  np_linalg_norm(PSub(fold_point, closest_point))

\* the perpendicular distance from fold_point to the line through
\* nose_point and mouth_point; the Python int 0 when the line has length 0
calculate_fold_depth(fold_point, nose_point, mouth_point) ==
    LET line_vec == PSub(mouth_point, nose_point)
        point_vec == PSub(fold_point, nose_point)
        line_len == np_linalg_norm(line_vec)
        line_unitvec == PDivide(line_vec, line_len)
        projection == np_dot(point_vec, line_unitvec)
        closest_point == PAdd(nose_point, PScale(projection, line_unitvec))
    IN  IF IsErr(line_len) THEN line_len
        ELSE IF line_len = Zero THEN PyInt(0)
        ELSE np_linalg_norm(PSub(fold_point, closest_point))

NasolabialMeasure(landmarks) ==
    LET left_fold == At(landmarks, nasolabial_left[1])
        nose_left == At(landmarks, nose_bottom_left)
        mouth_left == At(landmarks, mouth_corner_left)
        right_fold == At(landmarks, nasolabial_right[1])
        nose_right == At(landmarks, nose_bottom_right)
        mouth_right == At(landmarks, mouth_corner_right)
    IN  [left_depth |-> calculate_fold_depth(left_fold, nose_left, mouth_left),
         fold_angle_left |-> calculate_angle(nose_left, left_fold, mouth_left),
         right_depth |-> calculate_fold_depth(right_fold, nose_right, mouth_right),
         fold_angle_right |-> calculate_angle(nose_right, right_fold, mouth_right)]

NasolabialLeftLoads ==
    {nasolabial_left[1], nose_bottom_left, mouth_corner_left, cheek_left}

NasolabialRightLoads ==
    {nasolabial_right[1], nose_bottom_right, mouth_corner_right, cheek_right}

Nasolabial_set_baseline(b, m, len) ==
    LET s1 == Assign(Begin(b), InRange(len, NasolabialLeftLoads),
                     "baseline_left_depth", m.left_depth)
        s2 == Assign(s1, TRUE, "baseline_fold_angle_left", m.fold_angle_left)
        s3 == Assign(s2, InRange(len, NasolabialRightLoads),
                     "baseline_right_depth", m.right_depth)
    IN  Assign(s3, TRUE, "baseline_fold_angle_right", m.fold_angle_right)

NasolabialLoads == NasolabialLeftLoads \cup NasolabialRightLoads

NasolabialHasBaseline(b) == b.baseline_left_depth # None

NasolabialUsesBaseline(b, use_baseline) ==
    use_baseline /\ b.baseline_left_depth # None

NasolabialFraction(b, m, use_baseline) ==
    IF NasolabialUsesBaseline(b, use_baseline)
    THEN LET left_depth_change == RelChange(m.left_depth, b.baseline_left_depth)
             right_depth_change == RelChange(m.right_depth, b.baseline_right_depth)
             left_angle_change ==
                 RelChange(m.fold_angle_left, b.baseline_fold_angle_left)
             right_angle_change ==
                 RelChange(m.fold_angle_right, b.baseline_fold_angle_right)
         IN  VDiv(VAdd(VMul(VAdd(left_depth_change, right_depth_change), R(6, 10)),
                       VMul(VAdd(left_angle_change, right_angle_change), R(4, 10))),
                  R(2, 1))
    ELSE LET avg_depth == VDiv(VAdd(m.left_depth, m.right_depth), R(2, 1))
             depth_factor == PyMin(VMul(avg_depth, R(30, 1)), One)
             avg_angle == VDiv(VAdd(m.fold_angle_left, m.fold_angle_right), R(2, 1))
             angle_factor == VSub(One, VDiv(avg_angle, R(180, 1)))
         IN  VAdd(VMul(depth_factor, R(6, 10)), VMul(angle_factor, R(4, 10)))

NasolabialMultiplier == R(25, 10)

----------------------------------------------------------------------------
(* The analyzer of region r: an object [baseline, history]                 *)

InitBaseline(r) ==
    CASE r = "brow" -> BrowInit
      [] r = "eye" -> EyeInit
      [] r = "grimace" -> GrimaceInit
      [] r = "jaw" -> JawInit
      [] r = "nasolabial" -> NasolabialInit

\* __init__
NewAnalyzer(r) == [baseline |-> InitBaseline(r), history |-> <<>>]

\* What the analyzers read of a landmark array: its length and the
\* measurements each region takes of it.
MeasuresOf(landmarks) ==
    [brow |-> BrowMeasure(landmarks),
     eye |-> EyeMeasure(landmarks),
     grimace |-> GrimaceMeasure(landmarks),
     jaw |-> JawMeasure(landmarks),
     nasolabial |-> NasolabialMeasure(landmarks),
     len |-> landmarks.len]

\* The calls of the model name a frame f and pass FrameTable[f], computed
\* once per frame.
FrameTable ==
    [neutral |-> MeasuresOf(Landmarks("neutral")),
     tense |-> MeasuresOf(Landmarks("tense")),
     degenerate |-> MeasuresOf(Landmarks("degenerate"))]

\* the landmarks analyze loads before it scores
Loads(r) ==
    CASE r = "brow" -> BrowLoads
      [] r = "eye" -> EyeLoads
      [] r = "grimace" -> GrimaceLoads
      [] r = "jaw" -> JawLoads
      [] r = "nasolabial" -> NasolabialLoads

\* the test `self.baseline_<first> is not None` that sets has_baseline
HasBaseline(r, b) ==
    CASE r = "brow" -> BrowHasBaseline(b)
      [] r = "eye" -> EyeHasBaseline(b)
      [] r = "grimace" -> GrimaceHasBaseline(b)
      [] r = "jaw" -> JawHasBaseline(b)
      [] r = "nasolabial" -> NasolabialHasBaseline(b)

\* the condition of the `if` that selects the baseline formula
UsesBaseline(r, b, use_baseline) ==
    CASE r = "brow" -> BrowUsesBaseline(b, use_baseline)
      [] r = "eye" -> EyeUsesBaseline(b, use_baseline)
      [] r = "grimace" -> GrimaceUsesBaseline(b, use_baseline)
      [] r = "jaw" -> JawUsesBaseline(b, use_baseline)
      [] r = "nasolabial" -> NasolabialUsesBaseline(b, use_baseline)

Fraction(r, b, m, use_baseline) ==
    CASE r = "brow" -> BrowFraction(b, m, use_baseline)
      [] r = "eye" -> EyeFraction(b, m, use_baseline)
      [] r = "grimace" -> GrimaceFraction(b, m, use_baseline)
      [] r = "jaw" -> JawFraction(b, m, use_baseline)
      [] r = "nasolabial" -> NasolabialFraction(b, m, use_baseline)

Multiplier(r) ==
    CASE r = "brow" -> BrowMultiplier
      [] r = "eye" -> EyeMultiplier
      [] r = "grimace" -> GrimaceMultiplier
      [] r = "jaw" -> JawMultiplier
      [] r = "nasolabial" -> NasolabialMultiplier

\* score = np.clip(score * multiplier, 0.0, 1.0)
RawScore(r, b, m, use_baseline) ==
    np_clip(VMul(Fraction(r, b, m, use_baseline), Multiplier(r)), Zero, One)

\* Push with pop() in place of pop(0): the newest entry is dropped
Push_pop_newest(history, score) ==
    LET h == Append(history, score)
    IN  IF Len(h) > history_size THEN SubSeq(h, 1, Len(h) - 1) ELSE h

\* self.history.append(score); pop(0) when longer than history_size
Push(history, score) ==
    LET h == Append(history, score)
    IN  IF Len(h) > history_size THEN Tail(h) ELSE h

\* np.linspace with equal weights: np.full(num, stop)
np_linspace_flat(start, stop, num) == [i \in 1..num |-> stop]

\* np.linspace(start, stop, num), num > 1
np_linspace(start, stop, num) ==
    LET step == VDiv(VSub(stop, start), R(num - 1, 1))
    IN  [i \in 1..num |-> VAdd(start, VMul(R(i - 1, 1), step))]

RECURSIVE WeightedSum(_, _, _)
WeightedSum(a, w, i) ==
    IF i = 0 THEN Zero
    ELSE VAdd(WeightedSum(a, w, i - 1), VMul(a[i], w[i]))

RECURSIVE SeqSum(_, _)
SeqSum(w, i) == IF i = 0 THEN Zero ELSE VAdd(SeqSum(w, i - 1), w[i])

\* np.average(a, weights=w)
np_average(a, w) == VDiv(WeightedSum(a, w, Len(a)), SeqSum(w, Len(w)))

\* the smoothed score of a history whose last entry is score
Smoothed(history, score) ==
    IF Len(history) > 1
    THEN np_average(history, np_linspace(R(5, 10), One, Len(history)))
    ELSE score

Percentage(score) == VMul(score, R(100, 1))

\* the call raised e: no record is returned
NoRecord(e) ==
    [raised |-> e, score |-> None, percentage |-> None,
     smoothed_score |-> None, smoothed_percentage |-> None,
     has_baseline |-> FALSE, mode |-> "none"]

\* the score record analyze returns; mode records which formula scored
ScoreRecord(score, smoothed_score, has_baseline, mode) ==
    [raised |-> "none",
     score |-> score,
     percentage |-> Percentage(score),
     smoothed_score |-> smoothed_score,
     smoothed_percentage |-> Percentage(smoothed_score),
     has_baseline |-> has_baseline,
     mode |-> mode]

\* analyze from the push on: h is the history after the push
analyze_smooth(self, r, use_baseline, score, h) ==
    [self |-> [self EXCEPT !.history = h],
     ret |-> ScoreRecord(score, Smoothed(h, score),
                         HasBaseline(r, self.baseline),
                         IF UsesBaseline(r, self.baseline, use_baseline)
                         THEN "baseline" ELSE "absolute")]

\* analyze once the raw score is computed: an exception raised by the
\* arithmetic leaves the analyzer as it was
analyze_push(self, r, use_baseline, score) ==
    IF IsErr(score)
    THEN [self |-> self, ret |-> NoRecord(score.k)]
    ELSE analyze_smooth(self, r, use_baseline, score, Push(self.history, score))

\* analyze(landmarks, use_baseline): the analyzer afterwards and the score
\* record returned
analyze(self, r, landmarks, use_baseline) ==
    IF ~InRange(landmarks.len, Loads(r))
    THEN [self |-> self, ret |-> NoRecord("IndexError")]
    ELSE analyze_push(self, r, use_baseline,
                      RawScore(r, self.baseline, landmarks[r], use_baseline))

\* the analyzer after the assignments st of set_baseline
set_baseline_store(self, st) ==
    [self |-> [self EXCEPT !.baseline = st.b], raised |-> st.raised]

\* set_baseline(landmarks): the analyzer afterwards and the exception raised
set_baseline(self, r, landmarks) ==
    set_baseline_store(self,
        CASE r = "brow" ->
               Brow_set_baseline(self.baseline, landmarks[r], landmarks.len)
          [] r = "eye" ->
               Eye_set_baseline(self.baseline, landmarks[r], landmarks.len)
          [] r = "grimace" ->
               Grimace_set_baseline(self.baseline, landmarks[r], landmarks.len)
          [] r = "jaw" ->
               Jaw_set_baseline(self.baseline, landmarks[r], landmarks.len)
          [] r = "nasolabial" ->
               Nasolabial_set_baseline(self.baseline, landmarks[r], landmarks.len))

\* the pop(0) after the append forgotten
Trim_nothing(h) == h

\* if len(self.history) > self.history_size: self.history.pop(0)
Trim(h) == IF Len(h) > history_size THEN Tail(h) ELSE h

\* the baseline_* attributes in the order set_baseline assigns them
AssignmentOrder(r) ==
    CASE r = "brow" ->
           <<"baseline_distance_left", "baseline_distance_right",
             "baseline_angle">>
      [] r = "eye" ->
           <<"baseline_left_aperture", "baseline_right_aperture",
             "baseline_left_width", "baseline_right_width">>
      [] r = "grimace" ->
           <<"baseline_corner_distance", "baseline_vertical_distance",
             "baseline_lip_distance">>
      [] r = "jaw" ->
           <<"baseline_left_distance", "baseline_right_distance",
             "baseline_jaw_width", "baseline_jaw_angle">>
      [] r = "nasolabial" ->
           <<"baseline_left_depth", "baseline_fold_angle_left",
             "baseline_right_depth", "baseline_fold_angle_right">>

\* reset_history that forgets to clear the history
reset_history_noop(self) == self

\* reset_history that clears the baseline as well
reset_history_all(self) ==
    [history |-> <<>>,
     baseline |-> [fld \in DOMAIN self.baseline |-> None]]

\* reset_history()
reset_history(self) == [self EXCEPT !.history = <<>>]

\* get_description with <= in place of <
DescriptionBranch_inclusive(score) ==
    LET percentage == VMul(score, R(100, 1))
    IN  IF VLe(percentage, R(20, 1)) THEN 1
        ELSE IF VLe(percentage, R(40, 1)) THEN 2
        ELSE IF VLe(percentage, R(60, 1)) THEN 3
        ELSE IF VLe(percentage, R(80, 1)) THEN 4
        ELSE 5

\* get_description(score): the index 1..5 of the branch taken
DescriptionBranch(score) ==
    LET percentage == VMul(score, R(100, 1))
    IN  IF VLt(percentage, R(20, 1)) THEN 1
        ELSE IF VLt(percentage, R(40, 1)) THEN 2
        ELSE IF VLt(percentage, R(60, 1)) THEN 3
        ELSE IF VLt(percentage, R(80, 1)) THEN 4
        ELSE 5

Descriptions(r) ==
    CASE r = "brow" ->
           <<"minimal tension", "slight tension", "moderate tension",
             "significant tension", "severe tension (furrowed brows)">>
      [] r = "eye" ->
           <<"eyes relaxed, normal aperture", "slight eye narrowing",
             "moderate squinting", "significant squinting (narrowed eyes)",
             "severe squinting (eyes tightly narrowed)">>
      [] r = "grimace" ->
           <<"relaxed expression", "slight mouth tension", "moderate grimacing",
             "significant grimacing (corners depressed)",
             "severe grimacing (tight lips, corner tension)">>
      [] r = "jaw" ->
           <<"jaw relaxed", "slight jaw tension", "moderate jaw clenching",
             "significant jaw tension (elevated muscle tension)",
             "severe jaw clenching (tight jaw muscles)">>
      [] r = "nasolabial" ->
           <<"minimal facial strain", "slight nasolabial tension",
             "moderate facial strain", "significant strain (deepened folds)",
             "severe facial strain (pronounced fold deepening)">>

get_description(r, score) == Descriptions(r)[DescriptionBranch(score)]

----------------------------------------------------------------------------
(* FacialAgent._analyze_pain: the three aggregated scores of the smoothed   *)
(* scores of the five analyzers (results[r] = results[name]                *)
(* ['smoothed_score'])                                                     *)

PainOrder == <<"brow", "grimace", "eye", "jaw", "nasolabial">>

\* weights that do not sum to 1: nasolabial 0.15 for 0.05
PainWeights_unnormalised ==
    [brow |-> R(25, 100), grimace |-> R(30, 100), eye |-> R(20, 100),
     jaw |-> R(20, 100), nasolabial |-> R(15, 100)]

\* weights (in hundredths): 0.25, 0.30, 0.20, 0.20, 0.05
PainWeights ==
    [brow |-> R(25, 100), grimace |-> R(30, 100), eye |-> R(20, 100),
     jaw |-> R(20, 100), nasolabial |-> R(5, 100)]

\* sum(results[name] * weights[name] for name in weights.keys()), from int 0
RECURSIVE PainSum(_, _, _)
PainSum(results, weights, i) ==
    IF i = 0 THEN PyInt(0)
    ELSE VAdd(PainSum(results, weights, i - 1),
              VMul(results[PainOrder[i]], weights[PainOrder[i]]))

pain_score(results, weights) ==
    VMul(PainSum(results, weights, Len(PainOrder)), PyInt(10))

stress_score(results) ==
    VMul(VAdd(VAdd(VMul(results["eye"], R(50, 100)),
                   VMul(results["brow"], R(30, 100))),
              VMul(results["jaw"], R(20, 100))),
         PyInt(10))

anxiety_score(results) ==
    VMul(VAdd(VAdd(VAdd(VMul(results["eye"], R(30, 100)),
                        VMul(results["brow"], R(30, 100))),
                   VMul(results["jaw"], R(25, 100))),
              VMul(results["grimace"], R(15, 100))),
         PyInt(10))

\* the record _analyze_pain returns for the smoothed scores `results`
aggregate(results) ==
    [pain_score |-> pain_score(results, PainWeights),
     stress_score |-> stress_score(results),
     anxiety_score |-> anxiety_score(results)]

\* the weights of RealtimePainDetector.analyze_pain
RealtimeWeights ==
    [brow |-> R(25, 100), grimace |-> R(30, 100), eye |-> R(20, 100),
     jaw |-> R(20, 100), nasolabial |-> R(5, 100)]

\* RealtimePainDetector.analyze_pain: overall_score of the smoothed scores
overall_score(results) ==
    VMul(VAdd(VAdd(VAdd(VAdd(VMul(results["brow"], RealtimeWeights["brow"]),
                             VMul(results["grimace"], RealtimeWeights["grimace"])),
                        VMul(results["eye"], RealtimeWeights["eye"])),
                   VMul(results["jaw"], RealtimeWeights["jaw"])),
              VMul(results["nasolabial"], RealtimeWeights["nasolabial"])),
         PyInt(10))

\* config.PAIN_WEIGHTS edited without the two other places: nasolabial 0.10
PAIN_WEIGHTS_edited ==
    [brow_tension |-> R(25, 100), grimace |-> R(30, 100),
     eye_squint |-> R(20, 100), jaw_clench |-> R(20, 100),
     nasolabial |-> R(10, 100)]

\* config.PAIN_WEIGHTS
PAIN_WEIGHTS ==
    [brow_tension |-> R(25, 100), grimace |-> R(30, 100),
     eye_squint |-> R(20, 100), jaw_clench |-> R(20, 100),
     nasolabial |-> R(5, 100)]

\* the integrated test's weighted_score; here results[name] is the smoothed
\* percentage of analyzer `name`
weighted_score(results) ==
    VDiv(VAdd(VAdd(VAdd(VAdd(VMul(results["brow"], PAIN_WEIGHTS["brow_tension"]),
                             VMul(results["grimace"], PAIN_WEIGHTS["grimace"])),
                        VMul(results["eye"], PAIN_WEIGHTS["eye_squint"])),
                   VMul(results["jaw"], PAIN_WEIGHTS["jaw_clench"])),
              VMul(results["nasolabial"], PAIN_WEIGHTS["nasolabial"])),
         R(10, 1))

\* the pain score of the smoothed scores `results` as each of the three
\* places computes it
PainScores(results) ==
    [agent |-> pain_score(results, PainWeights),
     realtime |-> overall_score(results),
     test |-> weighted_score([r \in Regions |-> Percentage(results[r])])]

----------------------------------------------------------------------------
(* Severity banding of the pain score for display                          *)

\* BGR colours
Green == <<0, 255, 0>>
Yellow == <<0, 255, 255>>
Red == <<0, 0, 255>>

\* RealtimePainDetector.draw_info: the colour and the level of the score
draw_info(score) ==
    IF VLt(score, PyInt(3)) THEN [color |-> Green, level |-> "LOW"]
    ELSE IF VLt(score, PyInt(6)) THEN [color |-> Yellow, level |-> "MODERATE"]
    ELSE [color |-> Red, level |-> "HIGH"]

\* config.PAIN_THRESHOLDS
PAIN_THRESHOLDS == [low |-> R(3, 1), medium |-> R(6, 1), high |-> R(10, 1)]

\* get_color_for_score with <= in place of <
get_color_for_score_inclusive(score, thresholds) ==
    IF VLe(score, thresholds["low"]) THEN Green
    ELSE IF VLe(score, thresholds["medium"]) THEN Yellow
    ELSE Red

\* utils.get_color_for_score(score, thresholds)
get_color_for_score(score, thresholds) ==
    IF VLt(score, thresholds["low"]) THEN Green
    ELSE IF VLt(score, thresholds["medium"]) THEN Yellow
    ELSE Red

----------------------------------------------------------------------------
(* FacialAgent: five analyzers, calibrated on the first frame with a face  *)

\* the order of self.analyzers (a dict keeps insertion order)
AgentOrder == <<"brow", "eye", "grimace", "jaw", "nasolabial">>

Position(r) == CHOOSE i \in 1..Len(AgentOrder) : AgentOrder[i] = r

\* __init__
NewAgent ==
    [analyzers |-> [r \in Regions |-> NewAnalyzer(r)],
     baseline_set |-> FALSE,
     frame_count |-> 0,
     pain_scores |-> <<>>]

\* the position in AgentOrder of the first call that raised, one past the
\* last position when none did; raised[r] is what the call on analyzer r
\* raises
FirstRaise(raised) ==
    CHOOSE i \in 1..(Len(AgentOrder) + 1) :
        /\ \A j \in 1..(i - 1) : raised[AgentOrder[j]] = "none"
        /\ i <= Len(AgentOrder) => raised[AgentOrder[i]] # "none"

\* what a loop over the analyzers raised
LoopRaised(raised, first) ==
    IF first > Len(AgentOrder) THEN "none" ELSE raised[AgentOrder[first]]

\* the analyzers after a loop that called them in order, outs[r].self being
\* analyzer r after its call, and stopped at the first exception
AfterCalls(analyzers, outs, first) ==
    [r \in Regions |->
        IF Position(r) <= first THEN outs[r].self ELSE analyzers[r]]

FacialAgent_set_baseline_done(self, outs, first) ==
    [self |-> [self EXCEPT
                 !.analyzers = AfterCalls(self.analyzers, outs, first),
                 !.baseline_set = (first > Len(AgentOrder)) \/ @],
     raised |-> LoopRaised([r \in Regions |-> outs[r].raised], first)]

FacialAgent_set_baseline_calls(self, outs) ==
    FacialAgent_set_baseline_done(self, outs,
        FirstRaise([r \in Regions |-> outs[r].raised]))

\* _set_baseline(landmarks)
FacialAgent_set_baseline(self, landmarks) ==
    FacialAgent_set_baseline_calls(self,
        [r \in Regions |-> set_baseline(self.analyzers[r], r, landmarks)])

\* results[name]['score'] where the code reads 'smoothed_score'
SmoothedScores_raw(results) == [r \in Regions |-> results[r].score]

\* results[name]['smoothed_score'] of every analyzer
SmoothedScores(results) == [r \in Regions |-> results[r].smoothed_score]

\* no analysis: process_frame raised or found no face
NoAnalysis(e) ==
    [raised |-> e, success |-> FALSE,
     results |-> [r \in Regions |-> NoRecord("none")],
     pain_score |-> None, stress_score |-> None, anxiety_score |-> None,
     indicators |-> [r \in Regions |-> None]]

\* the dict _analyze_pain returns, with the records it was computed from
Analysis(results, scores) ==
    [raised |-> "none", success |-> TRUE,
     results |-> results,
     pain_score |-> scores.pain_score,
     stress_score |-> scores.stress_score,
     anxiety_score |-> scores.anxiety_score,
     indicators |-> [r \in Regions |-> results[r].smoothed_percentage]]

FacialAgent_analyze_pain_done(self, outs, first, results) ==
    [self |-> [self EXCEPT
                 !.analyzers = AfterCalls(self.analyzers, outs, first)],
     analysis |->
         IF first > Len(AgentOrder)
         THEN Analysis(results, aggregate(SmoothedScores(results)))
         ELSE NoAnalysis(results[AgentOrder[first]].raised)]

FacialAgent_analyze_pain_calls(self, outs) ==
    FacialAgent_analyze_pain_done(self, outs,
        FirstRaise([r \in Regions |-> outs[r].ret.raised]),
        [r \in Regions |-> outs[r].ret])

\* _analyze_pain(landmarks)
FacialAgent_analyze_pain(self, landmarks) ==
    FacialAgent_analyze_pain_calls(self,
        [r \in Regions |-> analyze(self.analyzers[r], r, landmarks, TRUE)])

\* process_frame once the pain indicators are analyzed
process_frame_analyzed(an) ==
    IF ~an.analysis.success THEN an
    ELSE [self |-> [an.self EXCEPT
                      !.pain_scores = Append(@, an.analysis.pain_score),
                      !.frame_count = @ + 1],
          analysis |-> an.analysis]

\* process_frame from the analysis on; cal is the agent after the
\* calibration step and what that step raised
process_frame_calibrated(cal, landmarks) ==
    IF cal.raised # "none"
    THEN [self |-> cal.self, analysis |-> NoAnalysis(cal.raised)]
    ELSE process_frame_analyzed(FacialAgent_analyze_pain(cal.self, landmarks))

\* process_frame that calibrates whenever no frame is recorded yet
process_frame_unflagged(self, landmarks) ==
    process_frame_calibrated(
        IF self.frame_count = 0
        THEN FacialAgent_set_baseline(self, landmarks)
        ELSE [self |-> self, raised |-> "none"],
        landmarks)

\* process_frame(frame) when the detector found a face with these
\* landmarks: the agent afterwards and the analysis returned
process_frame(self, landmarks) ==
    process_frame_calibrated(
        IF ~self.baseline_set /\ self.frame_count = 0
        THEN FacialAgent_set_baseline(self, landmarks)
        ELSE [self |-> self, raised |-> "none"],
        landmarks)

\* process_frame that counts a frame before it looks for a face
process_frame_no_face_counted(self) ==
    [self |-> [self EXCEPT !.frame_count = @ + 1],
     analysis |-> [raised |-> "none", success |-> FALSE,
                   error |-> "No face detected"]]

\* process_frame(frame) when the detector found no face: the early return
process_frame_no_face(self) ==
    [self |-> self,
     analysis |-> [raised |-> "none", success |-> FALSE,
                   error |-> "No face detected"]]

\* np.mean of a non-empty list
np_mean(a) == VDiv(SeqSum(a, Len(a)), R(Len(a), 1))

\* get_average_scores()
get_average_scores(self) ==
    IF self.pain_scores = <<>>
    THEN [avg_pain_score |-> Zero, avg_stress_score |-> Zero,
          avg_anxiety_score |-> Zero, total_frames |-> 0]
    ELSE [avg_pain_score |-> np_mean(self.pain_scores),
          avg_stress_score |-> np_mean(self.pain_scores),
          avg_anxiety_score |-> np_mean(self.pain_scores),
          total_frames |-> self.frame_count]

\* reset() without the reset_history calls
FacialAgent_reset_flags(self) ==
    [self EXCEPT !.baseline_set = FALSE, !.frame_count = 0,
                 !.pain_scores = <<>>]

\* reset()
FacialAgent_reset(self) ==
    [analyzers |-> [r \in Regions |-> reset_history(self.analyzers[r])],
     baseline_set |-> FALSE,
     frame_count |-> 0,
     pain_scores |-> <<>>]

----------------------------------------------------------------------------
(* Analyzer objects: an instance holds its baseline_* values and a         *)
(* reference to the list object that is its history.  append and pop       *)
(* change the list in place; `self.history = []` binds a new list.         *)

\* as many list objects as two instances can hold, and one being allocated
Addresses == 1..3

\* two analyzers that were given one list for their histories
NewPair_shared(r) ==
    [heap |-> [a \in Addresses |-> <<>>],
     inst |-> [i \in 1..2 |->
                 [baseline |-> NewAnalyzer(r).baseline, history |-> 1]]]

\* two analyzers of region r constructed one after the other from the same
\* landmark index map: __init__ binds a new empty list in each
NewPair(r) ==
    [heap |-> [a \in Addresses |-> <<>>],
     inst |-> [i \in 1..2 |->
                 [baseline |-> NewAnalyzer(r).baseline, history |-> i]]]

\* instance i as the analyzer it is: its baseline and its history's contents
Deref(p, i) ==
    [baseline |-> p.inst[i].baseline,
     history |-> p.heap[p.inst[i].history]]

\* the objects after set_baseline or analyze on instance i left it as self:
\* the baseline_* attributes are bound to the new values and the history
\* list is changed in place
Mutated(p, i, self) ==
    [heap |-> [p.heap EXCEPT ![p.inst[i].history] = self.history],
     inst |-> [p.inst EXCEPT ![i].baseline = self.baseline]]

\* a list object no instance refers to
Alloc(p) ==
    CHOOSE a \in Addresses :
        /\ \A i \in 1..2 : p.inst[i].history # a
        /\ \A b \in Addresses :
               (\A i \in 1..2 : p.inst[i].history # b) => a <= b

\* the objects after reset_history on instance i: self.history = [] binds
\* the new list a; the list it held is freed unless another instance
\* still refers to it
Rebound(p, i, a) ==
    [heap |-> [b \in Addresses |->
                 IF b = a THEN <<>>
                 ELSE IF b = p.inst[i].history
                         /\ \A j \in 1..2 : j # i => p.inst[j].history # b
                      THEN <<>>
                      ELSE p.heap[b]],
     inst |-> [p.inst EXCEPT ![i].history = a]]

----------------------------------------------------------------------------
(* RealtimePainDetector: five analyzers, calibrated and reset by key press *)

\* the order in which the detector calls its analyzers
DetectorOrder == <<"brow", "grimace", "eye", "jaw", "nasolabial">>

\* __init__
NewDetector ==
    [analyzers |-> [r \in Regions |-> NewAnalyzer(r)],
     baseline_set |-> FALSE]

\* calls made one after the other in DetectorOrder, outs[r].self being
\* analyzer r after its call and raised[r] what the call raises: the
\* analyzers after the calls up to the first that raised, and what it raised
InDetectorOrder(analyzers, outs, raised) ==
    LET n == Len(DetectorOrder)
        first == CHOOSE i \in 1..(n + 1) :
                     /\ \A j \in 1..(i - 1) : raised[DetectorOrder[j]] = "none"
                     /\ i <= n => raised[DetectorOrder[i]] # "none"
    IN  [analyzers |->
             [r \in Regions |->
                 IF \E i \in 1..n : i <= first /\ DetectorOrder[i] = r
                 THEN outs[r].self ELSE analyzers[r]],
         raised |-> IF first > n THEN "none" ELSE raised[DetectorOrder[first]]]

calibrate_baseline_done(self, done) ==
    [self |-> [analyzers |-> done.analyzers,
               baseline_set |-> (done.raised = "none") \/ self.baseline_set],
     ret |-> [raised |-> done.raised]]

calibrate_baseline_calls(self, outs) ==
    calibrate_baseline_done(self,
        InDetectorOrder(self.analyzers, outs,
                        [r \in Regions |-> outs[r].raised]))

\* calibrate_baseline(landmarks)
calibrate_baseline(self, landmarks) ==
    calibrate_baseline_calls(self,
        [r \in Regions |-> set_baseline(self.analyzers[r], r, landmarks)])

\* reset_baseline()
reset_baseline(self) ==
    [self |-> [analyzers |->
                   [r \in Regions |-> reset_history(self.analyzers[r])],
               baseline_set |-> FALSE],
     ret |-> [raised |-> "none"]]

\* the dict analyze_pain returns, with the records it was computed from
analyze_pain_done(self, done, results) ==
    [self |-> [self EXCEPT !.analyzers = done.analyzers],
     ret |-> IF done.raised # "none"
             THEN [raised |-> done.raised]
             ELSE [raised |-> "none",
                   results |-> results,
                   percentage |->
                       [r \in Regions |-> results[r].smoothed_percentage],
                   overall_score |-> overall_score(SmoothedScores(results))]]

analyze_pain_calls(self, outs) ==
    analyze_pain_done(self,
        InDetectorOrder(self.analyzers, outs,
                        [r \in Regions |-> outs[r].ret.raised]),
        [r \in Regions |-> outs[r].ret])

\* analyze_pain(landmarks)
analyze_pain(self, landmarks) ==
    analyze_pain_calls(self,
        [r \in Regions |-> analyze(self.analyzers[r], r, landmarks, TRUE)])

----------------------------------------------------------------------------
(* State: one analyzer instance and the calls made on it, and a probe that *)
(* records one application of a pure function                              *)

VARIABLES
    region,     \* which of the five analyzers the instance is
    baseline,   \* its baseline_* fields
    history,    \* self.history
    last,       \* the last call: operation, arguments, what it returned
    prev,       \* the call before the last: operation, history length found
    calib,      \* the frame of the last set_baseline call that returned
    log,        \* the raw scores analyze returned since the last
                \* reset_history (or construction), oldest first
    probe,      \* a pure function applied to an input, and its result
    agent,      \* a FacialAgent: its analyzers, baseline_set, frame_count
                \* and pain_scores
    analysis,   \* what the agent's last process_frame or reset returned
    session,    \* the agent's frames with a face since construction or the
                \* last reset: how many, and what was returned for those
                \* that were recorded
    pair,       \* two more analyzers of the same region and the list
                \* objects their histories are
    threads,    \* the calls in progress on the analyzer when threads
                \* share it
    detector    \* a RealtimePainDetector: its analyzers and baseline_set

vars ==
    <<region, baseline, history, last, prev, calib, log, probe, agent,
      analysis, session, pair, threads, detector>>

Self == [baseline |-> baseline, history |-> history]

\* a call, the length of the history it found, and what it returned
Call(op, f, ub, ret) ==
    [op |-> op, frame |-> f, use_baseline |-> ub, found |-> Len(history),
     ret |-> ret]

Before == [op |-> last.op, found |-> last.found]

NoProbe == [fn |-> "none"]

\* a freshly constructed analyzer of region r
Constructed(r) ==
    /\ region = r
    /\ baseline = NewAnalyzer(r).baseline
    /\ history = NewAnalyzer(r).history
    /\ last = [op |-> "init", frame |-> "none", use_baseline |-> FALSE,
               found |-> 0, ret |-> NoRecord("none")]
    /\ prev = [op |-> "none", found |-> 0]
    /\ calib = "none"
    /\ log = <<>>

\* no frame with a face yet, and whether reset() was ever called
NoFrames(after_reset) ==
    [detected |-> 0, recorded |-> <<>>, after_reset |-> after_reset]

\* the frames of the session after one more frame with a face, for which
\* process_frame returned (or raised) ret
Detected(ret) ==
    [detected |-> session.detected + 1,
     recorded |-> IF ret.success
                  THEN Append(session.recorded,
                              [pain_score |-> ret.pain_score,
                               stress_score |-> ret.stress_score,
                               anxiety_score |-> ret.anxiety_score])
                  ELSE session.recorded,
     after_reset |-> session.after_reset]

\* two more analyzers of the region, and an analyzer `alone` that is given
\* the calls of the first and no others
PairConstructed ==
    pair = [obj |-> NewPair(region), alone |-> NewAnalyzer(region),
            on |-> 0, op |-> "init", ret |-> NoRecord("none"),
            alone_ret |-> NoRecord("none")]

\* a thread that is in no call
Idle ==
    [pc |-> "idle", mode |-> "none", score |-> None, smoothed_score |-> None,
     window |-> 0, next |-> 0, raised |-> "none"]

\* no call in progress; serialized says whether the callers take turns
Threads(serialized) ==
    [serialized |-> serialized, t |-> [t \in 1..2 |-> Idle]]

NoThreads == Threads(TRUE)

\* a freshly constructed detector
DetectorConstructed ==
    detector = [self |-> NewDetector, op |-> "init", frame |-> "none",
                ret |-> [raised |-> "none"]]

\* a freshly constructed agent
AgentConstructed ==
    /\ agent = NewAgent
    /\ analysis = [op |-> "init", frame |-> "none", ret |-> NoAnalysis("none")]
    /\ session = NoFrames(FALSE)

Init ==
    /\ \E r \in Regions : Constructed(r)
    /\ probe = NoProbe
    /\ AgentConstructed
    /\ PairConstructed
    /\ threads = NoThreads
    /\ DetectorConstructed

\* the analyzer and the record of calls after set_baseline returned out
SetBaselineDone(f, out) ==
    /\ baseline' = out.self.baseline
    /\ history' = out.self.history
    /\ last' = Call("set_baseline", f, FALSE, NoRecord(out.raised))
    /\ prev' = Before
    /\ calib' = IF out.raised = "none" THEN f ELSE "partial"
    /\ UNCHANGED <<region, log, probe, agent, analysis,
                   session, pair, threads, detector>>

\* analyzer.set_baseline(landmarks) on frame f
SetBaseline(f) == SetBaselineDone(f, set_baseline(Self, region, FrameTable[f]))

\* the analyzer and the record of calls after analyze returned out
AnalyzeDone(f, ub, out) ==
    /\ baseline' = out.self.baseline
    /\ history' = out.self.history
    /\ last' = Call("analyze", f, ub, out.ret)
    /\ prev' = Before
    /\ log' = IF out.ret.raised = "none"
              THEN Append(log, out.ret.score) ELSE log
    /\ UNCHANGED <<region, calib, probe, agent, analysis,
                   session, pair, threads, detector>>

\* analyzer.analyze(landmarks, use_baseline=ub) on frame f
DoAnalyze(f, ub) == AnalyzeDone(f, ub, analyze(Self, region, FrameTable[f], ub))

\* analyzer.reset_history()
ResetHistory ==
    /\ baseline' = reset_history(Self).baseline
    /\ history' = reset_history(Self).history
    /\ last' = Call("reset_history", "none", FALSE, NoRecord("none"))
    /\ prev' = Before
    /\ log' = <<>>
    /\ UNCHANGED <<region, calib, probe, agent, analysis,
                   session, pair, threads, detector>>

----------------------------------------------------------------------------
(* Spec: any sequence of set_baseline, analyze and reset_history calls on  *)
(* frames of valid shape, with at most MaxCalls analyze calls between two  *)
(* reset_history calls                                                     *)

MaxCalls == 3

Analyze(f, ub) == Len(log) < MaxCalls /\ DoAnalyze(f, ub)

Next ==
    \/ \E f \in FrameIds : SetBaseline(f)
    \/ \E f \in FrameIds, ub \in BOOLEAN : Analyze(f, ub)
    \/ ResetHistory

Spec == Init /\ [][Next]_vars

----------------------------------------------------------------------------
(* SessionSpec: the analyzer as a video session drives it (FacialAgent,    *)
(* RealtimePainDetector): calibration happens while the history is empty,  *)
(* every frame is analyzed with the default use_baseline=True, and a       *)
(* session is at most MaxFrames frames long; reset_history starts the next *)
(* session                                                                 *)

MaxFrames == 6

Calibrate(f) == log = <<>> /\ SetBaseline(f)

AnalyzeFrame(f) == Len(log) < MaxFrames /\ DoAnalyze(f, TRUE)

SessionNext ==
    \/ \E f \in FrameIds : Calibrate(f)
    \/ \E f \in FrameIds : AnalyzeFrame(f)
    \/ ResetHistory

SessionSpec == Init /\ [][SessionNext]_vars

----------------------------------------------------------------------------
(* ShapeSpec: one analyzer given arrays of valid and of invalid shape: the  *)
(* neutral frame, the neutral frame cut to ShortLen landmarks, and the     *)
(* tense frame followed by ExtraLandmarks more landmarks (a face mesh with *)
(* refined landmarks has more than N); at most MaxShapeCalls analyze calls *)
(* between two resets                                                      *)

ShortLen == 300

ExtraLandmarks == 10

MaxShapeCalls == 2

\* the first len rows of landmarks, rows past its end at the origin
Resized(landmarks, len) ==
    [len |-> len,
     at  |-> [i \in 0..(len - 1) |->
                IF i < landmarks.len THEN landmarks.at[i]
                ELSE <<Zero, Zero, Zero>>]]

ShapeIds == {"valid", "truncated", "extended"}

ShapeTable ==
    [valid |-> MeasuresOf(Landmarks("neutral")),
     truncated |-> MeasuresOf(Resized(Landmarks("neutral"), ShortLen)),
     extended |-> MeasuresOf(Resized(Landmarks("tense"), N + ExtraLandmarks))]

\* analyzer.set_baseline(landmarks) on the array f
ShapeSetBaseline(f) ==
    SetBaselineDone(f, set_baseline(Self, region, ShapeTable[f]))

\* analyzer.analyze(landmarks, use_baseline=ub) on the array f
ShapeAnalyze(f, ub) ==
    /\ Len(log) < MaxShapeCalls
    /\ AnalyzeDone(f, ub, analyze(Self, region, ShapeTable[f], ub))

ShapeNext ==
    \/ \E f \in ShapeIds : ShapeSetBaseline(f)
    \/ \E f \in ShapeIds, ub \in BOOLEAN : ShapeAnalyze(f, ub)
    \/ ResetHistory

ShapeSpec == Init /\ [][ShapeNext]_vars

----------------------------------------------------------------------------
(* AgentSpec: a FacialAgent fed the frames of a video, in some of which the *)
(* detector finds no face, asked for its averages, and reset between       *)
(* sessions; at most MaxAgentFrames frames with a face are processed       *)
(* between two resets                                                      *)

MaxAgentFrames == 4

ProcessFrameDone(f, out) ==
    /\ agent' = out.self
    /\ analysis' = [op |-> "process_frame", frame |-> f, ret |-> out.analysis]
    /\ session' = Detected(out.analysis)
    /\ UNCHANGED <<region, baseline, history, last, prev, calib, log, probe,
                   pair, threads, detector>>

\* agent.process_frame(frame), the detector finding a face with the
\* landmarks of frame f
ProcessFrame(f) ==
    /\ session.detected < MaxAgentFrames
    /\ ProcessFrameDone(f, process_frame(agent, FrameTable[f]))

\* agent.process_frame(frame), the detector finding no face
ProcessFrameNoFace ==
    /\ agent' = process_frame_no_face(agent).self
    /\ analysis' = [op |-> "process_frame", frame |-> "none",
                    ret |-> process_frame_no_face(agent).analysis]
    /\ UNCHANGED <<region, baseline, history, last, prev, calib, log, probe,
                   session, pair, threads, detector>>

\* agent.get_average_scores()
GetAverageScores ==
    /\ analysis' = [op |-> "get_average_scores", frame |-> "none",
                    ret |-> get_average_scores(agent)]
    /\ UNCHANGED <<region, baseline, history, last, prev, calib, log, probe,
                   agent, session, pair, threads, detector>>

\* agent.reset()
AgentReset ==
    /\ agent' = FacialAgent_reset(agent)
    /\ analysis' = [op |-> "reset", frame |-> "none", ret |-> NoAnalysis("none")]
    /\ session' = NoFrames(TRUE)
    /\ UNCHANGED <<region, baseline, history, last, prev, calib, log, probe,
                   pair, threads, detector>>

AgentInit ==
    /\ Constructed("brow")
    /\ probe = NoProbe
    /\ AgentConstructed
    /\ PairConstructed
    /\ threads = NoThreads
    /\ DetectorConstructed

AgentNext ==
    \/ \E f \in FrameIds : ProcessFrame(f)
    \/ ProcessFrameNoFace
    \/ GetAverageScores
    \/ AgentReset

AgentSpec == AgentInit /\ [][AgentNext]_vars

----------------------------------------------------------------------------
(* PairSpec: two analyzers of the same region, each tracking its own       *)
(* subject: set_baseline, analyze and reset_history calls on either, in    *)
(* any order; the calls on the first are also made on an analyzer that     *)
(* exists alone.  The frames are the neutral and the tense one, and an     *)
(* instance gets at most MaxPairCalls analyze calls between two of its     *)
(* resets.                                                                 *)

MaxPairCalls == 1

PairFrames == {"neutral", "tense"}

\* the analyzer `alone` after a call on instance i: it follows instance 1
Alone(i, out) == IF i = 1 THEN out ELSE [self |-> pair.alone, ret |-> pair.alone_ret]

PairDone(i, op, obj, ret, alone) ==
    /\ pair' = [obj |-> obj, alone |-> alone.self, on |-> i, op |-> op,
                ret |-> ret, alone_ret |-> alone.ret]
    /\ UNCHANGED <<region, baseline, history, last, prev, calib, log, probe,
                   agent, analysis, session, threads, detector>>

PairSetBaselineDone(i, out, alone) ==
    PairDone(i, "set_baseline", Mutated(pair.obj, i, out.self),
             NoRecord(out.raised),
             Alone(i, [self |-> alone.self, ret |-> NoRecord(alone.raised)]))

\* set_baseline(landmarks) on instance i, on frame f
PairSetBaseline(i, f) ==
    PairSetBaselineDone(i,
        set_baseline(Deref(pair.obj, i), region, FrameTable[f]),
        set_baseline(pair.alone, region, FrameTable[f]))

PairAnalyzeDone(i, out, alone) ==
    PairDone(i, "analyze", Mutated(pair.obj, i, out.self), out.ret,
             Alone(i, alone))

\* analyze(landmarks) on instance i, on frame f
PairAnalyze(i, f) ==
    /\ Len(Deref(pair.obj, i).history) < MaxPairCalls
    /\ PairAnalyzeDone(i,
           analyze(Deref(pair.obj, i), region, FrameTable[f], TRUE),
           analyze(pair.alone, region, FrameTable[f], TRUE))

\* reset_history() on instance i
PairResetHistory(i) ==
    PairDone(i, "reset_history", Rebound(pair.obj, i, Alloc(pair.obj)),
             NoRecord("none"),
             Alone(i, [self |-> reset_history(pair.alone),
                       ret |-> NoRecord("none")]))

PairNext ==
    \/ \E i \in 1..2, f \in PairFrames : PairSetBaseline(i, f)
    \/ \E i \in 1..2, f \in PairFrames : PairAnalyze(i, f)
    \/ \E i \in 1..2 : PairResetHistory(i)

PairSpec == Init /\ [][PairNext]_vars

----------------------------------------------------------------------------
(* ThreadSpec: two threads calling analyze and set_baseline on one         *)
(* analyzer, set_baseline with a neutral frame and analyze with a tense    *)
(* one.  A call advances one step at a time: analyze tests the baseline,   *)
(* scores, appends, trims, smooths, returns; set_baseline makes one        *)
(* assignment per step.  (The three baseline reads of the scoring, and the *)
(* length test with the pop or with the average, are single steps here;    *)
(* the code has more points to interleave at, not fewer.)  When the        *)
(* callers are serialized a call starts only while no other is in          *)
(* progress.                                                               *)

\* thread t may start a call
MayStart(t) ==
    /\ threads.t[t].pc = "idle"
    /\ threads.serialized => \A u \in 1..2 : threads.t[u].pc = "idle"

\* thread t takes a step of its call that leaves the analyzer with
\* baseline b and history h
Stepped(t, th, b, h) ==
    /\ threads' = [threads EXCEPT !.t[t] = th]
    /\ baseline' = b
    /\ history' = h
    /\ UNCHANGED <<region, last, prev, calib, log, probe, agent, analysis,
                   session, pair, detector>>

\* analyze(landmarks) is called with the tense frame: the measurements
\* are local
BeginAnalyze(t) ==
    /\ MayStart(t)
    /\ Stepped(t, [Idle EXCEPT !.pc = "test"], baseline, history)

\* if use_baseline and self.baseline_<first> is not None
TestBaseline(t) ==
    /\ threads.t[t].pc = "test"
    /\ Stepped(t, [threads.t[t] EXCEPT
                      !.pc = "score",
                      !.mode = IF UsesBaseline(region, baseline, TRUE)
                               THEN "baseline" ELSE "absolute"],
               baseline, history)

ScoreComputed(t, score) ==
    Stepped(t,
            IF IsErr(score)
            THEN [Idle EXCEPT !.raised = score.k]
            ELSE [threads.t[t] EXCEPT !.pc = "append", !.score = score],
            baseline, history)

\* the branch chosen reads the baseline and the score is clipped
ComputeScore(t) ==
    /\ threads.t[t].pc = "score"
    /\ ScoreComputed(t, RawScore(region, baseline, FrameTable["tense"][region],
                                 threads.t[t].mode = "baseline"))

\* self.history.append(score)
AppendScore(t) ==
    /\ threads.t[t].pc = "append"
    /\ Stepped(t, [threads.t[t] EXCEPT !.pc = "trim"],
               baseline, Append(history, threads.t[t].score))

\* if len(self.history) > self.history_size: self.history.pop(0)
TrimHistory(t) ==
    /\ threads.t[t].pc = "trim"
    /\ Stepped(t, [threads.t[t] EXCEPT !.pc = "smooth"],
               baseline, Trim(history))

\* the weighted average over the history as it is now
SmoothScore(t) ==
    /\ threads.t[t].pc = "smooth"
    /\ Stepped(t, [threads.t[t] EXCEPT
                      !.pc = "return",
                      !.window = Len(history),
                      !.smoothed_score = Smoothed(history, threads.t[t].score)],
               baseline, history)

\* return {...}: the call is over and its locals are gone
ReturnRecord(t) ==
    /\ threads.t[t].pc = "return"
    /\ Stepped(t, Idle, baseline, history)

\* set_baseline(landmarks) is called with the neutral frame
BeginSetBaseline(t) ==
    /\ MayStart(t)
    /\ Stepped(t, [Idle EXCEPT !.pc = "assign", !.next = 1],
               baseline, history)

Assigned(t, fld, last_one, measured) ==
    Stepped(t,
            IF last_one THEN Idle
            ELSE [threads.t[t] EXCEPT !.next = @ + 1],
            [baseline EXCEPT ![fld] = measured[fld]], history)

\* the next assignment self.baseline_<...> = ... of set_baseline
AssignBaseline(t) ==
    /\ threads.t[t].pc = "assign"
    /\ Assigned(t, AssignmentOrder(region)[threads.t[t].next],
                threads.t[t].next = Len(AssignmentOrder(region)),
                set_baseline(NewAnalyzer(region), region,
                             FrameTable["neutral"]).self.baseline)

ThreadInit ==
    /\ \E r \in Regions : Constructed(r)
    /\ probe = NoProbe
    /\ AgentConstructed
    /\ PairConstructed
    /\ \E serialized \in BOOLEAN : threads = Threads(serialized)
    /\ DetectorConstructed

ThreadNext ==
    \/ \E t \in 1..2 : BeginAnalyze(t)
    \/ \E t \in 1..2 : TestBaseline(t)
    \/ \E t \in 1..2 : ComputeScore(t)
    \/ \E t \in 1..2 : AppendScore(t)
    \/ \E t \in 1..2 : TrimHistory(t)
    \/ \E t \in 1..2 : SmoothScore(t)
    \/ \E t \in 1..2 : ReturnRecord(t)
    \/ \E t \in 1..2 : BeginSetBaseline(t)
    \/ \E t \in 1..2 : AssignBaseline(t)

ThreadSpec == ThreadInit /\ [][ThreadNext]_vars

----------------------------------------------------------------------------
(* DetectorSpec: a RealtimePainDetector as its main loop drives it: every  *)
(* frame with a face is analyzed, the key C calibrates on the current      *)
(* frame, the key R resets; at most MaxDetectorFrames frames are analyzed  *)
(* between two resets                                                      *)

MaxDetectorFrames == 3

DetectorDone(op, f, out) ==
    /\ detector' = [self |-> out.self, op |-> op, frame |-> f, ret |-> out.ret]
    /\ UNCHANGED <<region, baseline, history, last, prev, calib, log, probe,
                   agent, analysis, session, pair, threads>>

\* detector.analyze_pain(landmarks) on frame f
DetectorAnalyzePain(f) ==
    /\ Len(detector.self.analyzers["brow"].history) < MaxDetectorFrames
    /\ DetectorDone("analyze_pain", f,
                    analyze_pain(detector.self, FrameTable[f]))

\* detector.calibrate_baseline(landmarks) on frame f
DetectorCalibrate(f) ==
    DetectorDone("calibrate_baseline", f,
                 calibrate_baseline(detector.self, FrameTable[f]))

\* detector.reset_baseline()
DetectorReset ==
    DetectorDone("reset_baseline", "none", reset_baseline(detector.self))

DetectorNext ==
    \/ \E f \in FrameIds : DetectorAnalyzePain(f)
    \/ \E f \in FrameIds : DetectorCalibrate(f)
    \/ DetectorReset

DetectorSpec == AgentInit /\ [][DetectorNext]_vars

----------------------------------------------------------------------------
(* FnSpec: get_description of an analyzer and the aggregator applied to    *)
(* scores of [0, 1], each applied once to an input.  get_description      *)
(* reads no state of the analyzer.                                         *)

\* scores k / (5 * GridPerBand): every band boundary is on the grid
GridPerBand == 4

ScoreGrid == {R(k, 5 * GridPerBand) : k \in 0..(5 * GridPerBand)}

\* smoothed scores k / AggSteps of each region
AggSteps == 2

AggGrid == {R(k, AggSteps) : k \in 0..AggSteps}

\* analyzer.get_description(score)
GetDescription(score) ==
    /\ probe = NoProbe
    /\ probe' = [fn |-> "get_description", score |-> score,
                 out |-> get_description(region, score)]
    /\ UNCHANGED <<region, baseline, history, last, prev, calib, log, agent,
                   analysis, session, pair, threads, detector>>

\* the aggregation of _analyze_pain on the smoothed scores `results`
AnalyzePain(results) ==
    /\ probe = NoProbe
    /\ probe' = [fn |-> "_analyze_pain", results |-> results,
                 out |-> aggregate(results)]
    /\ UNCHANGED <<region, baseline, history, last, prev, calib, log, agent,
                   analysis, session, pair, threads, detector>>

\* the pain score of one frame's smoothed scores, computed by the agent,
\* by the realtime detector and by the integrated test
ComputePainScore(results) ==
    /\ probe = NoProbe
    /\ probe' = [fn |-> "pain_score", results |-> results,
                 out |-> PainScores(results)]
    /\ UNCHANGED <<region, baseline, history, last, prev, calib, log, agent,
                   analysis, session, pair, threads, detector>>

\* the corners of a 3 x 4 rectangle (in pixels): every distance between two
\* of them is rational
ProbePoints == {<<R(x, 1), R(y, 1), Zero>> : x \in {0, 3}, y \in {0, 4}}

\* utils.calculate_angle(point1, point2, point3)
CalculateAngle(point1, point2, point3) ==
    /\ probe = NoProbe
    /\ probe' = [fn |-> "calculate_angle",
                 point1 |-> point1, point2 |-> point2, point3 |-> point3,
                 out |-> calculate_angle(point1, point2, point3)]
    /\ UNCHANGED <<region, baseline, history, last, prev, calib, log, agent,
                   analysis, session, pair, threads, detector>>

\* NasolabialAnalyzer._calculate_fold_depth(fold_point, nose_point,
\* mouth_point)
CalculateFoldDepth(fold_point, nose_point, mouth_point) ==
    /\ probe = NoProbe
    /\ probe' = [fn |-> "_calculate_fold_depth", fold_point |-> fold_point,
                 nose_point |-> nose_point, mouth_point |-> mouth_point,
                 out |-> calculate_fold_depth(fold_point, nose_point,
                                              mouth_point)]
    /\ UNCHANGED <<region, baseline, history, last, prev, calib, log, agent,
                   analysis, session, pair, threads, detector>>

\* pain scores k / PainSteps of [0, 10]: 3 and 6 are on the grid
PainSteps == 2

PainGrid == {R(k, PainSteps) : k \in 0..(10 * PainSteps)}

\* the band of a pain score as draw_info and as get_color_for_score with
\* config.PAIN_THRESHOLDS assign it
BandPainScore(score) ==
    /\ probe = NoProbe
    /\ probe' = [fn |-> "band", score |-> score,
                 out |-> [draw_info |-> draw_info(score),
                          color |-> get_color_for_score(score, PAIN_THRESHOLDS)]]
    /\ UNCHANGED <<region, baseline, history, last, prev, calib, log, agent,
                   analysis, session, pair, threads, detector>>

FnNext ==
    \/ \E p1, p2, p3 \in ProbePoints : CalculateAngle(p1, p2, p3)
    \/ \E p1, p2, p3 \in ProbePoints : CalculateFoldDepth(p1, p2, p3)
    \/ \E score \in PainGrid : BandPainScore(score)
    \/ \E score \in ScoreGrid : GetDescription(score)
    \/ \E results \in [Regions -> AggGrid] : AnalyzePain(results)
    \/ \E results \in [Regions -> AggGrid] : ComputePainScore(results)

FnSpec == Init /\ [][FnNext]_vars

----------------------------------------------------------------------------
(* Properties                                                              *)

\* the last call was an analyze call that returned a score record
Returned == last.op = "analyze" /\ last.ret.raised = "none"

\* v is a finite number of [0, top]
Within(v, top) == v.k = "f" /\ 0 <= v.n /\ v.n <= top * v.d

\* C1: every score record an analyzer returns, after any sequence of
\* set_baseline, analyze and reset_history calls on arrays of valid shape,
\* has its raw and its smoothed score in [0, 1] and both percentages in
\* [0, 100].
C1_ScoresInRange ==
    Returned =>
        /\ Within(last.ret.score, 1)
        /\ Within(last.ret.smoothed_score, 1)
        /\ Within(last.ret.percentage, 100)
        /\ Within(last.ret.smoothed_percentage, 100)

\* the last k entries of s
LastN(s, k) == SubSeq(s, Len(s) - k + 1, Len(s))

\* C2: the history holds exactly the raw scores of the most recent
\* min(n, 5) analyze calls since the last reset_history, in arrival order
\* (n = the number of such calls): never more than 5 entries, and the 6th
\* call evicts exactly the oldest.
C2_HistoryIsRecent ==
    /\ Len(history) <= 5
    /\ history = LastN(log, IF Len(log) < 5 THEN Len(log) ELSE 5)

\* a 6th analyze call has evicted the oldest of six scores, which differs
\* from the newest
C2_Witness ==
    /\ Returned
    /\ Len(log) = 6
    /\ Len(history) = 5
    /\ history = Tail(log)
    /\ log[1] # log[6]
    /\ log[1] # log[2]

\* the weight 0.5 + 0.5 * (i - 1) / (n - 1) of the i-th oldest of n samples
LinearWeight(i, n) == R(n - 2 + i, 2 * (n - 1))

RECURSIVE LinearSum(_, _)
LinearSum(h, i) ==
    IF i = 0 THEN Zero
    ELSE VAdd(LinearSum(h, i - 1), VMul(h[i], LinearWeight(i, Len(h))))

RECURSIVE LinearTotal(_, _)
LinearTotal(n, i) ==
    IF i = 0 THEN Zero ELSE VAdd(LinearTotal(n, i - 1), LinearWeight(i, n))

\* C3: the smoothed score analyze returns is the weighted average of the
\* history after the push, the weights rising linearly from 0.5 on the
\* oldest sample to 1.0 on the newest; with one sample in the history it is
\* the raw score itself.
C3_SmoothedIsLinearAverage ==
    Returned =>
        IF Len(history) = 1
        THEN last.ret.smoothed_score = last.ret.score
        ELSE last.ret.smoothed_score =
                 VDiv(LinearSum(history, Len(history)),
                      LinearTotal(Len(history), Len(history)))

\* a full history of finite scores, oldest and newest different, whose
\* average differs from the raw score
C3_Witness ==
    /\ Returned
    /\ Len(history) = 5
    /\ \A i \in 1..5 : history[i].k = "f"
    /\ history[1] # history[5]
    /\ last.ret.smoothed_score # last.ret.score
    /\ last.ret.smoothed_score.k = "f"

\* C4: the analyze call that follows reset_history returns a smoothed score
\* equal to its own raw score, whatever analyze calls preceded the reset.
C4_FirstAfterResetIsRaw ==
    (prev.op = "reset_history" /\ Returned) =>
        last.ret.smoothed_score = last.ret.score

\* reset_history found several scores in the history, and the analyze call
\* after it returned a finite, nonzero score
C4_Witness ==
    /\ prev.op = "reset_history"
    /\ prev.found > 1
    /\ Returned
    /\ last.ret.score.k = "f"
    /\ last.ret.score # Zero
    /\ last.ret.smoothed_score = last.ret.score

\* C5: reset_history empties the history and changes no baseline
\* measurement; when a baseline was set before, the record the next
\* analyze(use_baseline=True) returns is scored in baseline mode and has
\* has_baseline = True.
C5_ResetKeepsBaseline ==
    [][/\ last'.op = "reset_history" =>
              (history' = <<>> /\ baseline' = baseline)
       /\ (/\ last.op = "reset_history"
           /\ calib # "none"
           /\ last'.op = "analyze"
           /\ last'.use_baseline
           /\ last'.ret.raised = "none") =>
              /\ last'.ret.mode = "baseline"
              /\ last'.ret.has_baseline]_vars

\* a calibrated analyzer with scores in its history was reset and then
\* analyzed a frame in baseline mode
C5_Witness ==
    /\ prev.op = "reset_history"
    /\ prev.found > 0
    /\ calib # "none"
    /\ HasBaseline(region, baseline)
    /\ Returned
    /\ last.use_baseline
    /\ last.ret.mode = "baseline"
    /\ last.ret.has_baseline
    /\ Len(history) = 1

\* C6: analyze(use_baseline=True) on an analyzer on which set_baseline was
\* never called raises nothing, returns has_baseline = False and returns
\* the raw score analyze(use_baseline=False) returns for the same array.
C6_NoBaselineFallsBack ==
    (last.op = "analyze" /\ last.use_baseline /\ calib = "none") =>
        /\ last.ret.raised = "none"
        /\ ~last.ret.has_baseline
        /\ last.ret.score =
               analyze(NewAnalyzer(region), region, FrameTable[last.frame],
                       FALSE).ret.score

\* an uncalibrated analyzer scored a frame with use_baseline=True and
\* returned a finite nonzero raw score
C6_Witness ==
    /\ Returned
    /\ last.use_baseline
    /\ calib = "none"
    /\ ~HasBaseline(region, baseline)
    /\ ~last.ret.has_baseline
    /\ last.ret.score.k = "f"
    /\ last.ret.score # Zero

\* C7: has_baseline of a score record is True exactly when its raw score
\* was computed in baseline mode (a baseline is stored and use_baseline is
\* True), and False whenever the non-baseline formula was used.
C7_FlagMeansBaselineMode ==
    Returned =>
        /\ last.ret.has_baseline <=> last.ret.mode = "baseline"
        /\ last.ret.has_baseline <=> (last.use_baseline /\ calib # "none")

\* C8: analyze(F) directly after set_baseline(F) returns a baseline-mode
\* raw score of 0 with has_baseline = True, for every frame F of valid
\* shape.
C8_SameFrameScoresZero ==
    (/\ prev.op = "set_baseline"
     /\ last.op = "analyze"
     /\ last.use_baseline
     /\ last.frame = calib) =>
        /\ last.ret.raised = "none"
        /\ last.ret.mode = "baseline"
        /\ last.ret.score = Zero
        /\ last.ret.has_baseline

\* the band 1..5 of [0,20), [20,40), [40,60), [60,80), [80,100] that holds
\* score * 100, for a score n/d of [0, 1]
Band(score) ==
    CHOOSE k \in 1..5 :
        /\ 20 * (k - 1) * score.d <= 100 * score.n
        /\ (100 * score.n < 20 * k * score.d
            \/ (k = 5 /\ score.n = score.d))

\* C9: get_description returns, for a score of [0, 1], the label of the band
\* of [0,20), [20,40), [40,60), [60,80), [80,100] that holds score * 100 (a
\* boundary belongs to the band above it), and the five labels of an
\* analyzer differ.
C9_DescriptionBands ==
    probe.fn = "get_description" =>
        /\ probe.out = Descriptions(region)[Band(probe.score)]
        /\ \A i, j \in 1..5 :
               i # j => Descriptions(region)[i] # Descriptions(region)[j]

\* the score 0.2, on the first boundary, got the label of the second band
C9_Witness ==
    /\ probe.fn = "get_description"
    /\ probe.score = R(1, 5)
    /\ probe.out = Descriptions(region)[2]
    /\ probe.out # Descriptions(region)[1]

\* C10: for smoothed scores of [0, 1] the aggregated pain, stress and
\* anxiety scores lie in [0, 10]; all three are 0 when every smoothed score
\* is 0 and 10 when every smoothed score is 1.
C10_AggregateRange ==
    probe.fn = "_analyze_pain" =>
        LET out == probe.out
            all == {out.pain_score, out.stress_score, out.anxiety_score}
        IN  /\ \A v \in all : Within(v, 10)
            /\ (\A r \in Regions : probe.results[r] = Zero) => all = {Zero}
            /\ (\A r \in Regions : probe.results[r] = One) => all = {R(10, 1)}

\* every smoothed score is 1 and the three aggregated scores are 10
C10_Witness ==
    /\ probe.fn = "_analyze_pain"
    /\ \A r \in Regions : probe.results[r] = One
    /\ probe.out.pain_score = R(10, 1)
    /\ probe.out.stress_score = R(10, 1)
    /\ probe.out.anxiety_score = R(10, 1)

\* the weights, in hundredths, of the pain, stress and anxiety scores
PainHundredths ==
    [brow |-> 25, grimace |-> 30, eye |-> 20, jaw |-> 20, nasolabial |-> 5]

StressHundredths == [eye |-> 50, brow |-> 30, jaw |-> 20]

AnxietyHundredths == [eye |-> 30, brow |-> 30, jaw |-> 25, grimace |-> 15]

\* the sum over the regions rs of score x weight
RECURSIVE WeightedTotal(_, _, _)
WeightedTotal(results, w, rs) ==
    IF rs = {} THEN Zero
    ELSE LET r == CHOOSE x \in rs : TRUE
         IN  VAdd(VMul(results[r], R(w[r], 100)),
                  WeightedTotal(results, w, rs \ {r}))

\* (the sum over the regions of w of score x weight) x 10
TimesTen(results, w) == VMul(WeightedTotal(results, w, DOMAIN w), R(10, 1))

\* C11: the pain score is the sum over the five regions of smoothed score x
\* weight, times 10, with the weights brow 0.25, grimace 0.30, eye 0.20,
\* jaw 0.20, nasolabial 0.05, and FacialAgent._analyze_pain,
\* RealtimePainDetector.analyze_pain and the integrated test's formula give
\* the same value on every input.
C11_PainScoreAgrees ==
    probe.fn = "pain_score" =>
        LET expected == TimesTen(probe.results, PainHundredths)
        IN  /\ probe.out.agent = expected
            /\ probe.out.realtime = expected
            /\ probe.out.test = expected

\* brow 1, grimace 1/2, nasolabial 1, eye and jaw 0: all three places give
\* (0.25 + 0.15 + 0.05) x 10 = 4.5
C11_Witness ==
    /\ probe.fn = "pain_score"
    /\ probe.results["brow"] = One
    /\ probe.results["grimace"] = R(1, 2)
    /\ probe.results["nasolabial"] = One
    /\ probe.results["eye"] = Zero
    /\ probe.results["jaw"] = Zero
    /\ probe.out.agent = R(45, 10)
    /\ probe.out.realtime = R(45, 10)
    /\ probe.out.test = R(45, 10)

\* the last entry of a non-empty sequence
Newest(h) == h[Len(h)]

\* C12: for every frame the agent analyzes, the stress score is
\* (eye x 0.50 + brow x 0.30 + jaw x 0.20) x 10 and the anxiety score is
\* (eye x 0.30 + brow x 0.30 + jaw x 0.25 + grimace x 0.15) x 10, of the
\* smoothed scores the analyze calls of that same frame returned.
C12_StressAndAnxiety ==
    analysis.op = "process_frame" /\ analysis.ret.success =>
        LET results == analysis.ret.results
            smoothed == [r \in Regions |-> results[r].smoothed_score]
        IN  /\ \A r \in Regions :
                   /\ results[r].raised = "none"
                   /\ agent.analyzers[r].history # <<>>
                   /\ results[r].score = Newest(agent.analyzers[r].history)
            /\ analysis.ret.stress_score = TimesTen(smoothed, StressHundredths)
            /\ analysis.ret.anxiety_score = TimesTen(smoothed, AnxietyHundredths)

\* the third frame of a session: the smoothed score of the eye analyzer
\* differs from its raw score, and the stress and anxiety scores are finite,
\* nonzero and different
C12_Witness ==
    /\ analysis.op = "process_frame"
    /\ analysis.ret.success
    /\ agent.frame_count = 3
    /\ analysis.ret.results["eye"].smoothed_score
           # analysis.ret.results["eye"].score
    /\ analysis.ret.stress_score.k = "f"
    /\ analysis.ret.anxiety_score.k = "f"
    /\ analysis.ret.stress_score # Zero
    /\ analysis.ret.anxiety_score # analysis.ret.stress_score

\* the colour that displays a severity level
LevelColor(level) ==
    CASE level = "LOW" -> Green
      [] level = "MODERATE" -> Yellow
      [] level = "HIGH" -> Red

BaselineTerms(r) ==
    CASE r = "brow" ->
           <<<<"distance_left", "baseline_distance_left", R(1, 3), "abs">>,
             <<"distance_right", "baseline_distance_right", R(1, 3), "abs">>,
             <<"angle", "baseline_angle", R(1, 3), "abs">>>>
      [] r = "eye" ->
           <<<<"left_aperture", "baseline_left_aperture", R(35, 100), "reduction">>,
             <<"right_aperture", "baseline_right_aperture", R(35, 100), "reduction">>,
             <<"left_width", "baseline_left_width", R(15, 100), "abs">>,
             <<"right_width", "baseline_right_width", R(15, 100), "abs">>>>
      [] r = "grimace" ->
           <<<<"corner_distance", "baseline_corner_distance", R(40, 100), "abs">>,
             <<"vertical_distance", "baseline_vertical_distance", R(30, 100), "abs">>,
             <<"lip_distance", "baseline_lip_distance", R(30, 100), "abs">>>>
      [] r = "jaw" ->
           <<<<"left_distance", "baseline_left_distance", R(25, 100), "abs">>,
             <<"right_distance", "baseline_right_distance", R(25, 100), "abs">>,
             <<"jaw_width", "baseline_jaw_width", R(25, 100), "abs">>,
             <<"jaw_angle", "baseline_jaw_angle", R(25, 100), "abs">>>>
      [] r = "nasolabial" ->
           <<<<"left_depth", "baseline_left_depth", R(30, 100), "abs">>,
             <<"right_depth", "baseline_right_depth", R(30, 100), "abs">>,
             <<"fold_angle_left", "baseline_fold_angle_left", R(20, 100), "abs">>,
             <<"fold_angle_right", "baseline_fold_angle_right", R(20, 100), "abs">>>>

\* one term of the combination
TermValue(current, base, kind) ==
    IF kind = "abs" THEN VDiv(VAbs(VAdd(current, VNeg(base))), base)
    ELSE VAdd(One, VNeg(VDiv(current, base)))

\* the weighted combination of the first i terms; "abs" stands for every
\* kind when allAbs
RECURSIVE Combination(_, _, _, _, _)
Combination(terms, b, m, allAbs, i) ==
    IF i = 0 THEN Zero
    ELSE VAdd(Combination(terms, b, m, allAbs, i - 1),
              VMul(TermValue(m[terms[i][1]], b[terms[i][2]],
                             IF allAbs THEN "abs" ELSE terms[i][4]),
                   terms[i][3]))

\* the last call was an analyze call scored in baseline mode
ScoredInBaselineMode == Returned /\ last.ret.mode = "baseline"

\* the fraction, before the sensitivity multiplier and the clamp, of the
\* last analyze call (analyze changes no baseline)
LastFraction ==
    Fraction(region, baseline, FrameTable[last.frame][region], TRUE)

\* C14 as amended: in baseline mode the brow, grimace, jaw and nasolabial
\* analyzers score every measurement by |current - baseline| / baseline;
\* the eye analyzer scores its two widths that way and its two apertures
\* by the signed reduction 1 - current / baseline; each combines its terms
\* with its fixed weights.  The combined fraction is never negative for
\* brow, grimace, jaw and nasolabial; a negative fraction of the eye
\* analyzer is clamped to the raw score 0.
C14_AbsoluteChangeButEyeAperture ==
    ScoredInBaselineMode =>
        LET terms == BaselineTerms(region)
            m == FrameTable[last.frame][region]
        IN  /\ LastFraction = Combination(terms, baseline, m, FALSE, Len(terms))
            /\ region # "eye" => ~VLt(LastFraction, Zero)
            /\ VLt(LastFraction, Zero) => last.ret.score = Zero

\* the eye analyzer, calibrated on narrowed eyes, scored a frame with the
\* eyes wider open: the fraction is negative and the raw score 0
C14_Witness ==
    /\ ScoredInBaselineMode
    /\ region = "eye"
    /\ calib = "tense"
    /\ last.frame = "neutral"
    /\ VLt(LastFraction, Zero)
    /\ last.ret.score = Zero

\* C14: in baseline mode every region analyzer, the eye analyzer included,
\* scores each measurement by its absolute relative change
\* |current - baseline| / baseline and combines these with the region's
\* fixed weights, so the combined fraction before clamping is never
\* negative.
C14_EveryChangeAbsolute ==
    ScoredInBaselineMode =>
        LET terms == BaselineTerms(region)
            m == FrameTable[last.frame][region]
        IN  /\ LastFraction = Combination(terms, baseline, m, TRUE, Len(terms))
            /\ ~VLt(LastFraction, Zero)

\* v clamped to [0, 1]
Clamp01(v) ==
    IF v.k = "nan" THEN v
    ELSE IF VLt(v, Zero) THEN Zero
    ELSE IF VLt(One, v) THEN One
    ELSE v

\* |current - baseline| / baseline
Change(current, base) == VDiv(VAbs(VAdd(current, VNeg(base))), base)

\* the last call was BrowAnalyzer.analyze(use_baseline=True) on a
\* calibrated analyzer, and returned
BrowScoredAfterCalibration ==
    /\ region = "brow"
    /\ calib \in FrameIds
    /\ Returned
    /\ last.use_baseline

\* C15: after set_baseline on a frame, BrowAnalyzer.analyze on a frame
\* whose left-eyebrow points are closer together returns has_baseline =
\* True and a tension_score > 0 that equals
\* clamp((left_change + right_change + angle_change) / 3 x 3.5, 0, 1), each
\* change being |current - baseline| / baseline of the left span, the right
\* span and the inter-eyebrow angle.
C15_BrowScenario ==
    BrowScoredAfterCalibration =>
        LET base == FrameTable[calib]["brow"]
            current == FrameTable[last.frame]["brow"]
            left_change == Change(current.distance_left, base.distance_left)
            right_change == Change(current.distance_right, base.distance_right)
            angle_change == Change(current.angle, base.angle)
            sum == VAdd(VAdd(left_change, right_change), angle_change)
        IN  /\ last.ret.has_baseline
            /\ last.ret.score = Clamp01(VMul(VDiv(sum, R(3, 1)), R(35, 10)))
            /\ VLt(current.distance_left, base.distance_left) =>
                   VLt(Zero, last.ret.score)

\* calibrated on the neutral frame, the analyzer scored the frame with the
\* left eyebrow points 50% closer: (0.5 + 0 + 0) / 3 x 3.5 = 7/12
C15_Witness ==
    /\ BrowScoredAfterCalibration
    /\ prev.op = "set_baseline"
    /\ calib = "neutral"
    /\ last.frame = "tense"
    /\ last.ret.has_baseline
    /\ last.ret.score = R(7, 12)

\* the baseline a fresh analyzer of this region holds after set_baseline on
\* frame f
FreshBaseline(f) ==
    set_baseline(NewAnalyzer(region), region, FrameTable[f]).self.baseline

\* C16: set_baseline overwrites any prior baseline: the baseline it leaves
\* is that of the frame it was given, whatever was stored before, and after
\* set_baseline(F1); set_baseline(F2) a baseline-mode analyze(F2) yields the
\* raw score 0, whatever F1 was.
C16_SetBaselineOverwrites ==
    [][/\ last'.op = "set_baseline" =>
              baseline' = FreshBaseline(last'.frame)
       /\ (/\ prev.op = "set_baseline"
           /\ last.op = "set_baseline"
           /\ last'.op = "analyze"
           /\ last'.use_baseline
           /\ last'.frame = last.frame) =>
              /\ last'.ret.raised = "none"
              /\ last'.ret.score = Zero]_vars

\* C17: degenerate geometry never raises a fault and has the fallback 0:
\* calculate_angle with a zero-length ray (the vertex coinciding with one
\* of the two other points) returns 0, a defined value.
C17_DegenerateAngleIsZero ==
    probe.fn = "calculate_angle" =>
        /\ ~IsErr(probe.out)
        /\ (probe.point2 = probe.point1 \/ probe.point2 = probe.point3) =>
               probe.out = Zero

\* C18: in baseline mode a zero or near-zero baseline measurement is
\* floored by a minimum epsilon before the division, so the relative
\* changes are bounded finite values and analyze returns a score record
\* with a finite score: no division error, no infinite or undefined score.
C18_ZeroBaselineIsGuarded ==
    (last.op = "analyze" /\ last.use_baseline /\ calib \in FrameIds) =>
        /\ last.ret.raised = "none"
        /\ IsFin(LastFraction)
        /\ IsFin(last.ret.score)

\* C19: analyze and set_baseline fail with an invalid-input error, and
\* neither return a score record nor store a baseline, whenever the array's
\* length differs from N or an index the analyzer references is not below
\* the array's length; an array longer than N in which every referenced
\* index exists is rejected as well.
C19_ShapeMismatchRejected ==
    [][(/\ last'.op \in {"analyze", "set_baseline"}
        /\ last'.frame \in {"truncated", "extended"}) =>
           /\ last'.ret.raised # "none"
           /\ baseline' = baseline
           /\ history' = history]_vars

\* twice the area of the triangle fold, nose, mouth (points of the plane
\* z = 0 with whole coordinates)
Cross(fold, nose, mouth) ==
    (fold[1].n - nose[1].n) * (mouth[2].n - nose[2].n)
        - (fold[2].n - nose[2].n) * (mouth[1].n - nose[1].n)

\* the squared distance of two such points
SquaredLength(p, q) ==
    (p[1].n - q[1].n) * (p[1].n - q[1].n)
        + (p[2].n - q[2].n) * (p[2].n - q[2].n)

\* C20: the fold depth is 0 whenever the nose-bottom and the mouth-corner
\* point coincide, for any fold point; otherwise it is the non-negative
\* perpendicular distance d from the fold point to the line through the
\* two (d x |mouth - nose| = twice the area of the triangle); and
\* _calculate_fold_depth never raises.
C20_FoldDepth ==
    probe.fn = "_calculate_fold_depth" =>
        LET out == probe.out
            fold == probe.fold_point
            nose == probe.nose_point
            mouth == probe.mouth_point
        IN  /\ ~IsErr(out)
            /\ IsFin(out)
            /\ nose = mouth => out.n = 0
            /\ nose # mouth =>
                   /\ out.n >= 0
                   /\ out.n * out.n * SquaredLength(mouth, nose)
                          = Cross(fold, nose, mouth) * Cross(fold, nose, mouth)
                              * out.d * out.d

\* the fold point (3, 0) lies 12/5 from the line through (0, 0) and (3, 4)
C20_Witness ==
    /\ probe.fn = "_calculate_fold_depth"
    /\ probe.fold_point = <<R(3, 1), Zero, Zero>>
    /\ probe.nose_point = <<Zero, Zero, Zero>>
    /\ probe.mouth_point = <<R(3, 1), R(4, 1), Zero>>
    /\ probe.out = R(12, 5)

\* the mean of the field fld of the recorded frames (at least one)
RECURSIVE FieldSum(_, _, _)
FieldSum(rec, fld, i) ==
    IF i = 0 THEN Zero ELSE VAdd(FieldSum(rec, fld, i - 1), rec[i][fld])

FieldMean(rec, fld) == VDiv(FieldSum(rec, fld, Len(rec)), R(Len(rec), 1))

\* C23: get_average_scores returns the means of the pain, the stress and
\* the anxiety scores process_frame returned for the recorded frames, and
\* their number as total_frames; all zeros and total_frames = 0 when no
\* frame is recorded.
C23_AverageScores ==
    analysis.op = "get_average_scores" =>
        LET ret == analysis.ret
            rec == session.recorded
        IN  /\ ret.total_frames = Len(rec)
            /\ IF rec = <<>>
               THEN /\ ret.avg_pain_score = Zero
                    /\ ret.avg_stress_score = Zero
                    /\ ret.avg_anxiety_score = Zero
               ELSE /\ ret.avg_pain_score = FieldMean(rec, "pain_score")
                    /\ ret.avg_stress_score = FieldMean(rec, "stress_score")
                    /\ ret.avg_anxiety_score = FieldMean(rec, "anxiety_score")

\* C24: the baseline_set flag of the detector equals the has_baseline flag
\* its analyzers report, and after reset_baseline, until the next
\* calibrate_baseline, every analyzer scores without a baseline.
C24_ResetBaselineResets ==
    detector.op = "analyze_pain" /\ detector.ret.raised = "none" =>
        \A r \in Regions :
            /\ detector.ret.results[r].has_baseline = detector.self.baseline_set
            /\ ~detector.self.baseline_set =>
                   detector.ret.results[r].mode = "absolute"

\* the baseline set_baseline stores in analyzer r from frame f
CalibratedOn(r, f) == set_baseline(NewAnalyzer(r), r, FrameTable[f]).self.baseline

\* this step is a process_frame in which a face is detected
FaceStep == session'.detected = session.detected + 1

\* C25: set_baseline runs on all five analyzers on the first frame with a
\* face after construction or after reset(), and no other step writes a
\* baseline: not a later frame, not a frame without a face, not reset().
C25_BaselineOnFirstDetection ==
    [][IF FaceStep /\ session.detected = 0
       THEN \A r \in Regions :
                agent'.analyzers[r].baseline = CalibratedOn(r, analysis'.frame)
       ELSE \A r \in Regions :
                agent'.analyzers[r].baseline = agent.analyzers[r].baseline]_vars

\* the second frame with a face shows another expression than the first,
\* and the baseline is still that of the first
C25_Witness ==
    /\ analysis.op = "process_frame"
    /\ analysis.frame = "tense"
    /\ session.detected = 2
    /\ \A r \in Regions :
           /\ agent.analyzers[r].baseline = CalibratedOn(r, "neutral")
           /\ agent.analyzers[r].baseline # CalibratedOn(r, "tense")

\* this step is a process_frame in which no face is detected
NoFaceStep ==
    /\ analysis'.op = "process_frame"
    /\ analysis'.frame = "none"
    /\ analysis' # analysis \/ agent' # agent

\* C26: process_frame on a frame without a face returns success = False
\* and an error, and leaves frame_count, pain_scores, baseline_set and
\* every analyzer's history and baseline as they were.
C26_NoFaceChangesNothing ==
    [][NoFaceStep =>
          /\ analysis'.ret.success = FALSE
          /\ analysis'.ret.error = "No face detected"
          /\ agent'.frame_count = agent.frame_count
          /\ agent'.pain_scores = agent.pain_scores
          /\ agent'.baseline_set = agent.baseline_set
          /\ \A r \in Regions :
                 /\ agent'.analyzers[r].history = agent.analyzers[r].history
                 /\ agent'.analyzers[r].baseline = agent.analyzers[r].baseline
      ]_vars

\* a frame without a face in the middle of a session: the history of every
\* analyzer holds the two frames before it
C26_Witness ==
    /\ analysis.op = "process_frame"
    /\ analysis.frame = "none"
    /\ agent.baseline_set
    /\ agent.frame_count = 2
    /\ \A r \in Regions : Len(agent.analyzers[r].history) = 2

\* a frame without a face before any face was detected: the calibration is
\* still to come
C26_WitnessBeforeCalibration ==
    /\ analysis.op = "process_frame"
    /\ analysis.frame = "none"
    /\ ~agent.baseline_set
    /\ session.detected = 0

\* C27: between calls, len(pain_scores) equals frame_count and
\* baseline_set is true exactly when frame_count > 0.
C27_CountersAgree ==
    /\ Len(agent.pain_scores) = agent.frame_count
    /\ agent.baseline_set <=> agent.frame_count > 0

\* frames whose geometry is not degenerate: no baseline measurement is zero
NonDegenerate == {"neutral", "tense"}

\* C28: the first frame with a face after construction or after reset(),
\* when its geometry is not degenerate, is analyzed against itself: every
\* analyzer's raw and smoothed score is 0 and the pain, stress and anxiety
\* scores returned are 0.
C28_FirstFrameScoresZero ==
    (/\ analysis.op = "process_frame"
     /\ analysis.frame \in NonDegenerate
     /\ session.detected = 1) =>
        /\ analysis.ret.success
        /\ \A r \in Regions :
               /\ analysis.ret.results[r].score = Zero
               /\ analysis.ret.results[r].smoothed_score = Zero
               /\ analysis.ret.results[r].mode = "baseline"
        /\ analysis.ret.pain_score = Zero
        /\ analysis.ret.stress_score = Zero
        /\ analysis.ret.anxiety_score = Zero

\* the first frame after a reset shows a tense face and is recorded with
\* pain score 0
C28_Witness ==
    /\ analysis.op = "process_frame"
    /\ analysis.frame = "tense"
    /\ session.after_reset
    /\ session.detected = 1
    /\ agent.frame_count = 1
    /\ agent.pain_scores = <<Zero>>
    /\ \A r \in Regions : agent.analyzers[r].history = <<Zero>>

\* the baseline measurements b are all absent or all present
AllOrNone(b) ==
    \/ \A fld \in DOMAIN b : b[fld] = None
    \/ \A fld \in DOMAIN b : b[fld] # None

\* C29: in every state of an analyzer, also after a set_baseline that
\* failed part-way on a malformed array, its baseline measurements are all
\* absent or all present, and analyze never scores in baseline mode while a
\* baseline measurement is missing.
C29_BaselineAllOrNone ==
    /\ AllOrNone(baseline)
    /\ (last.op = "analyze" /\ last.use_baseline /\ HasBaseline(region, baseline))
           => \A fld \in DOMAIN baseline : baseline[fld] # None

\* the raw scores of the last min(n, 5) analyze calls
Recent == LastN(log, IF Len(log) < 5 THEN Len(log) ELSE 5)

\* C30: the smoothed score analyze returns lies between the least and the
\* greatest raw score in the history; when all of them are the same score s
\* it is s; and it is computed from the raw scores of the last 5 analyze
\* calls alone.
C30_SmoothedWithinHistory ==
    Returned =>
        LET s == last.ret.smoothed_score
        IN  /\ \E i \in 1..Len(history) : VLe(history[i], s)
            /\ \E i \in 1..Len(history) : VLe(s, history[i])
            /\ (\A i \in 1..Len(history) : history[i] = history[1])
                   => s = history[1]
            /\ s = IF Len(Recent) = 1 THEN Recent[1]
                   ELSE VDiv(LinearSum(Recent, Len(Recent)),
                             LinearTotal(Len(Recent), Len(Recent)))

\* C21: a call on one analyzer instance never changes the baseline or the
\* history of another instance, also not of an instance of the same region
\* constructed from the same index map; an analyzer used next to another
\* holds and returns what it does when it is used alone.
C21_InstancesIndependent ==
    [][/\ \A i \in 1..2 :
              (pair' # pair /\ pair'.on # i) =>
                  Deref(pair'.obj, i) = Deref(pair.obj, i)
       /\ Deref(pair'.obj, 1) = pair'.alone
       /\ pair'.on = 1 => pair'.ret = pair'.alone_ret]_vars

\* both instances are calibrated, on different frames, and hold different
\* histories; the last call was an analyze on the first, after the second
\* had been given its frame
C21_Witness ==
    /\ pair.on = 1
    /\ pair.op = "analyze"
    /\ pair.ret.raised = "none"
    /\ Deref(pair.obj, 1).baseline # Deref(pair.obj, 2).baseline
    /\ Deref(pair.obj, 2).baseline # NewAnalyzer(region).baseline
    /\ Len(Deref(pair.obj, 1).history) = 1
    /\ Len(Deref(pair.obj, 2).history) = 1
    /\ Deref(pair.obj, 1).history[1] # Deref(pair.obj, 2).history[1]

\* thread t has chosen the baseline branch of analyze and a baseline
\* measurement is not written
ChoseBaselineOnPartial(t) ==
    /\ threads.t[t].pc = "score"
    /\ threads.t[t].mode = "baseline"
    /\ \E fld \in DOMAIN baseline : baseline[fld] = None

\* thread t has averaged its smoothed score over more than 5 samples
OverlongWindow(t) ==
    /\ threads.t[t].pc = "return"
    /\ threads.t[t].window > history_size

\* C22: when the calls on an analyzer are serialized, no analyze call
\* averages over more than 5 history samples and none chooses baseline
\* mode while part of the baseline is not written; when analyze and
\* set_baseline calls interleave, both happen (C22_Witness,
\* C22_WitnessPartialBaseline).
C22_SerializedCallsAreSafe ==
    threads.serialized =>
        \A t \in 1..2 :
            /\ ~ChoseBaselineOnPartial(t)
            /\ ~OverlongWindow(t)
            /\ threads.t[t].raised = "none"
            /\ threads.t[t].window <= Len(history)

\* two analyze calls interleave: one has smoothed over 6 samples
C22_Witness ==
    /\ ~threads.serialized
    /\ \E t \in 1..2 : OverlongWindow(t) /\ threads.t[t].smoothed_score.k = "f"

\* analyze interleaves with set_baseline: it has chosen baseline mode with
\* only the first measurement written
C22_WitnessPartialBaseline ==
    /\ ~threads.serialized
    /\ \E t \in 1..2 : ChoseBaselineOnPartial(t)
    /\ \E u \in 1..2 : threads.t[u].pc = "assign" /\ threads.t[u].next = 2

====
